---- MODULE Spec2Model ----
(***************************************************************************)
(* Model of the Nucleus diff view: parseDiff (client/components/DiffView)  *)
(* scanning the text that GET /api/diff (server/index.ts) produces.        *)
(*                                                                         *)
(* A JavaScript string is a sequence of one-character strings, so that     *)
(* split, startsWith, slice and the three regular expressions are computed *)
(* character by character.  Array indices are 0-based as in the source:    *)
(* lines[i] of the source is lines[i + 1] here.                            *)
(***************************************************************************)
EXTENDS Integers, Sequences, FiniteSets, TLC

(***************************************************************************)
(* String primitives                                                       *)
(***************************************************************************)
NL == "\n"

Digits == {"0", "1", "2", "3", "4", "5", "6", "7", "8", "9"}

DigitVal(c) ==
    CASE c = "0" -> 0 [] c = "1" -> 1 [] c = "2" -> 2 [] c = "3" -> 3
      [] c = "4" -> 4 [] c = "5" -> 5 [] c = "6" -> 6 [] c = "7" -> 7
      [] c = "8" -> 8 [] c = "9" -> 9

DigitChar(n) ==
    CASE n = 0 -> "0" [] n = 1 -> "1" [] n = 2 -> "2" [] n = 3 -> "3"
      [] n = 4 -> "4" [] n = 5 -> "5" [] n = 6 -> "6" [] n = 7 -> "7"
      [] n = 8 -> "8" [] n = 9 -> "9"

SetMin(S) == CHOOSE x \in S : \A y \in S : x <= y

\* String.prototype.slice(n): the string without its first n characters.
Slice(s, n) == SubSeq(s, n + 1, Len(s))

\* p occurs in s at the 1-based position k.
OccursAt(s, p, k) ==
    /\ k >= 1
    /\ k + Len(p) - 1 <= Len(s)
    /\ SubSeq(s, k, k + Len(p) - 1) = p

\* A plausible slip: includes() instead of startsWith().
StartsWithAnywhere(s, p) == \E k \in 1..Len(s) : OccursAt(s, p, k)

\* String.prototype.startsWith
StartsWith(s, p) == OccursAt(s, p, 1)

\* String.prototype.split('\n'): never empty, "" gives [""], a trailing
\* newline gives a trailing "".
Split(s) ==
    LET nl == {k \in 1..Len(s) : s[k] = NL}
        n == Cardinality(nl)
        \* the position of the j-th newline
        pos(j) == CHOOSE k \in nl : Cardinality({m \in nl : m <= k}) = j
        first(j) == IF j = 1 THEN 1 ELSE pos(j - 1) + 1
        last(j) == IF j = n + 1 THEN Len(s) ELSE pos(j) - 1
    IN  [j \in 1..(n + 1) |-> SubSeq(s, first(j), last(j))]

\* Array.prototype.join('\n')
RECURSIVE Join(_)
Join(ls) ==
    IF ls = <<>> THEN <<>>
    ELSE IF Len(ls) = 1 THEN ls[1]
    ELSE ls[1] \o <<NL>> \o Join(Tail(ls))

\* parseInt(digits, 10) on a non-empty run of decimal digits.
RECURSIVE ParseInt(_)
ParseInt(ds) ==
    IF ds = <<>> THEN 0
    ELSE 10 * ParseInt(SubSeq(ds, 1, Len(ds) - 1)) + DigitVal(ds[Len(ds)])

\* A number interpolated in a template literal: its decimal digits.
RECURSIVE NumToStr(_)
NumToStr(n) ==
    IF n < 10 THEN <<DigitChar(n)>>
    ELSE Append(NumToStr(n \div 10), DigitChar(n % 10))

\* The position after the longest run of digits that starts at k (\d* at k).
DigitsEnd(s, k) ==
    SetMin({j \in k..(Len(s) + 1) : j > Len(s) \/ s[j] \notin Digits})

(***************************************************************************)
(* The literals of parseDiff                                               *)
(***************************************************************************)
DiffGit == <<"d", "i", "f", "f", " ", "-", "-", "g", "i", "t">>
DiffGitA == <<"d", "i", "f", "f", " ", "-", "-", "g", "i", "t", " ", "a", "/">>
SpB == <<" ", "b", "/">>
AtAt == <<"@", "@">>
MinusPath == <<"-", "-", "-", " ">>
PlusPath == <<"+", "+", "+", " ">>
BinaryMark == <<"B", "i", "n", "a", "r", "y", " ">>
PlusB == <<"+", "+", "+", " ", "b", "/">>
AtAtMinus == <<"@", "@", " ", "-">>
SpPlus == <<" ", "+">>
SpAtAt == <<" ", "@", "@">>
NoNewlineMark == <<"\\", " ", "N", "o", " ", "n", "e", "w", "l", "i", "n", "e">>

\* null of the source: a line number that is absent.
Null == -1

(***************************************************************************)
(* The regular expressions of parseDiff                                    *)
(***************************************************************************)
\* header.match(/diff --git a\/(.+?) b\/(.+)/): the second group, or the
\* empty string when there is no match (the groups are never empty).  The
\* pattern is not anchored; the first group is lazy, so the second starts
\* after the first " b/" that leaves one character before and after it.
HeaderMatch(h) ==
    LET cand == {kj \in (1..Len(h)) \X (1..Len(h)) :
                    /\ OccursAt(h, DiffGitA, kj[1])
                    /\ kj[2] >= kj[1] + Len(DiffGitA) + 1
                    /\ OccursAt(h, SpB, kj[2])
                    /\ kj[2] + Len(SpB) <= Len(h)}
    IN  IF cand = {} THEN <<>>
        ELSE LET k == SetMin({kj[1] : kj \in cand})
                 j == SetMin({kj[2] : kj \in {c \in cand : c[1] = k}})
             IN  Slice(h, j + Len(SpB) - 1)

\* lines[i].match(/^\+\+\+ b\/(.+)/): the group, or the empty string.
PlusMatch(l) ==
    IF StartsWith(l, PlusB) /\ Len(l) > Len(PlusB) THEN Slice(l, Len(PlusB))
    ELSE <<>>

\* (?:,\d+)? at k: the position after it.  The group is taken when a comma
\* and at least one digit are there (what follows must be a space).
OptLenEnd(s, k) ==
    IF k <= Len(s) /\ s[k] = "," /\ DigitsEnd(s, k + 1) > k + 1
    THEN DigitsEnd(s, k + 1)
    ELSE k

\* A plausible slip: the ',<length>' parts are not optional.
RangeMatchAtWithLengths(s, k) ==
    LET a1 == k + Len(AtAtMinus)
        a2 == DigitsEnd(s, a1)
        a3 == OptLenEnd(s, a2)
        b1 == a3 + Len(SpPlus)
        b2 == DigitsEnd(s, b1)
        b3 == OptLenEnd(s, b2)
    IN  IF /\ OccursAt(s, AtAtMinus, k)
           /\ a2 > a1
           /\ a3 > a2
           /\ OccursAt(s, SpPlus, a3)
           /\ b2 > b1
           /\ b3 > b2
           /\ OccursAt(s, SpAtAt, b3)
        THEN <<SubSeq(s, a1, a2 - 1), SubSeq(s, b1, b2 - 1)>>
        ELSE <<>>

\* /@@ -(\d+)(?:,\d+)? \+(\d+)(?:,\d+)? @@/ tried at position k: the two
\* groups as digit strings, or <<>> when the pattern does not match there.
RangeMatchAt(s, k) ==
    LET a1 == k + Len(AtAtMinus)
        a2 == DigitsEnd(s, a1)
        a3 == OptLenEnd(s, a2)
        b1 == a3 + Len(SpPlus)
        b2 == DigitsEnd(s, b1)
        b3 == OptLenEnd(s, b2)
    IN  IF /\ OccursAt(s, AtAtMinus, k)
           /\ a2 > a1
           /\ OccursAt(s, SpPlus, a3)
           /\ b2 > b1
           /\ OccursAt(s, SpAtAt, b3)
        THEN <<SubSeq(s, a1, a2 - 1), SubSeq(s, b1, b2 - 1)>>
        ELSE <<>>

\* hunkHeader.match(...): the leftmost match, <<>> for null.
RangeMatch(s) ==
    LET ks == {k \in 1..Len(s) : RangeMatchAt(s, k) # <<>>}
    IN  IF ks = {} THEN <<>> ELSE RangeMatchAt(s, SetMin(ks))

(***************************************************************************)
(* parseDiff: the state of one call                                        *)
(***************************************************************************)
VARIABLES
    raw,        \* the argument of parseDiff
    lines,      \* raw.split('\n')
    i,          \* the scan index
    pc,         \* the position in parseDiff
    files,      \* the DiffFile[] built so far
    header,     \* the 'diff --git' line of the current file block
    filePath,   \* the path of the current file block, '' when unresolved
    hunks,      \* the DiffHunk[] of the current file block
    hunkHeader, \* the '@@' line of the current hunk
    oldLine,    \* the next old line number of the current hunk
    newLine,    \* the next new line number of the current hunk
    hunkLines,  \* the DiffLine[] of the current hunk
    via,        \* the component that got the text: DiffView itself or ToolCall
    shown,      \* what the component has rendered
    returned,   \* what the earlier calls of parseDiff returned, by input
    build,      \* the version of the tools: tools.ts or part_005
    disk,       \* the file system the tools work on
    diskBefore, \* the file system before the last tool call
    call,       \* the arguments of the last tool call
    reply,      \* what the last tool call returned or threw
    io,         \* the paths the last tool call read and wrote
    ncalls      \* the number of tool calls so far

parserVars == <<raw, lines, i, pc, files, header, filePath, hunks, hunkHeader,
                oldLine, newLine, hunkLines, via, shown, returned>>

toolVars == <<build, disk, diskBefore, call, reply, io, ncalls>>

\* The server: its environment, the requests it got and what it answered.
\* The notes directory of the server is the file system `disk`.
VARIABLES
    env,        \* process.env: is NOTES_DIR set, is ANTHROPIC_API_KEY set
    clock,      \* what new Date() gives, in milliseconds
    req,        \* the last request: its route and its body
    resp,       \* the response to the last request
    streams,    \* the number of calls of streamText so far
    nreqs       \* the number of requests so far

serverVars == <<env, clock, req, resp, streams, nreqs>>

\* DiffPanel: its prop, its state, its timer and its requests.
VARIABLES
    mounted,     \* the component has been mounted
    isStreaming, \* the prop
    timer,       \* the interval of the effect: is it set, when is it due
    now,         \* the time, in seconds
    fetches,     \* the calls of fetch('/api/diff'), in the order of the calls
    data,        \* the state `data`
    prevDiffRef, \* prevDiffRef.current
    expanded     \* the state `expanded`

panelVars == <<mounted, isStreaming, timer, now, fetches, data, prevDiffRef,
               expanded>>

vars == <<parserVars, toolVars, serverVars, panelVars>>

\* A request without a body, and the body of a request: is it JSON, and
\* what is its property `messages`.
NoBody == [json |-> FALSE, messages |-> [kind |-> "undefined", items |-> <<>>]]

\* No request has been handled.
ServerIdle ==
    /\ env = [notesDir |-> TRUE, apiKey |-> TRUE]
    /\ clock = 0
    /\ req = [route |-> "none", body |-> NoBody]
    /\ resp = [route |-> "none", status |-> 0, error |-> <<>>, ok |-> FALSE,
               hasPreviousConversation |-> FALSE, transcript |-> <<>>,
               threw |-> FALSE]
    /\ streams = 0
    /\ nreqs = 0

\* DiffPanel before it is mounted: useState(null), useState(true),
\* useRef('').
PanelIdle ==
    /\ mounted = FALSE
    /\ isStreaming = FALSE
    /\ timer = [set |-> FALSE, due |-> 0]
    /\ now = 0
    /\ fetches = <<>>
    /\ data = [isNull |-> TRUE, diff |-> <<>>]
    /\ prevDiffRef = <<>>
    /\ expanded = TRUE

\* The variables as one record: the steps of parseDiff are functions of it,
\* so that the same steps give the state machine and the function ParseDiff.
Cur ==
    [raw |-> raw, lines |-> lines, i |-> i, pc |-> pc, files |-> files,
     header |-> header, filePath |-> filePath, hunks |-> hunks,
     hunkHeader |-> hunkHeader, oldLine |-> oldLine, newLine |-> newLine,
     hunkLines |-> hunkLines]

\* The local variables of parseDiff take the values of t.
Assign(t) ==
    /\ raw' = t.raw
    /\ lines' = t.lines
    /\ i' = t.i
    /\ pc' = t.pc
    /\ files' = t.files
    /\ header' = t.header
    /\ filePath' = t.filePath
    /\ hunks' = t.hunks
    /\ hunkHeader' = t.hunkHeader
    /\ oldLine' = t.oldLine
    /\ newLine' = t.newLine
    /\ hunkLines' = t.hunkLines

\* A step of parseDiff: nothing but its local variables changes.
Update(t) == Assign(t) /\ UNCHANGED <<via, shown, returned, toolVars, serverVars, panelVars>>

\* The state on entry to parseDiff(r).
Entry(r) ==
    [raw |-> r, lines |-> <<>>, i |-> 0, pc |-> "start", files |-> <<>>,
     header |-> <<>>, filePath |-> <<>>, hunks |-> <<>>,
     hunkHeader |-> <<>>, oldLine |-> 1, newLine |-> 1, hunkLines |-> <<>>]

\* lines[idx] of the source: undefined past the end of the array.
Undefined == <<"undefined">>

At(ls, idx) == IF idx >= 0 /\ idx < Len(ls) THEN ls[idx + 1] ELSE Undefined

\* A plausible slip: the bound test off by one.
InBoundsInclusive(ls, idx) == idx <= Len(ls)

\* i < lines.length
InBounds(ls, idx) == idx < Len(ls)

\* Calling startsWith on undefined throws a TypeError: parseDiff is left.
Throw(s) == [s EXCEPT !.pc = "threw"]

\* A plausible slip: includes('diff --git').
IsFileHeaderAnywhere(l) == StartsWithAnywhere(l, DiffGit)

\* lines[i].startsWith('diff --git')
IsFileHeader(l) == StartsWith(l, DiffGit)

\* lines[i].startsWith('@@')
IsHunkHeader(l) == StartsWith(l, AtAt)

(***************************************************************************)
(* parseDiff: the steps                                                    *)
(***************************************************************************)
\* const files = []; const lines = raw.split('\n'); let i = 0;
\* A plausible slip: files is declared outside parseDiff and never emptied.
SplitInputKeepsFiles(s) ==
    [s EXCEPT !.lines = Split(s.raw), !.i = 0, !.pc = "outer"]

SplitInputStep(s) ==
    [s EXCEPT !.files = <<>>, !.lines = Split(s.raw), !.i = 0, !.pc = "outer"]

\* while (i < lines.length) is over: return files.
ReturnGuard(s) == s.pc = "outer" /\ ~InBounds(s.lines, s.i)

ReturnStep(s) == [s EXCEPT !.pc = "done"]

\* if (!lines[i].startsWith('diff --git')) { i++; continue; }
SeekHeaderGuard(s) ==
    /\ s.pc = "outer"
    /\ InBounds(s.lines, s.i)
    /\ \/ At(s.lines, s.i) = Undefined
       \/ ~IsFileHeader(At(s.lines, s.i))

SeekHeaderStep(s) ==
    IF At(s.lines, s.i) = Undefined THEN Throw(s)
    ELSE [s EXCEPT !.i = s.i + 1]

\* const header = lines[i]; filePath from headerMatch, else ''; i++
FileHeaderGuard(s) ==
    /\ s.pc = "outer"
    /\ InBounds(s.lines, s.i)
    /\ At(s.lines, s.i) # Undefined
    /\ IsFileHeader(At(s.lines, s.i))

FileHeaderStep(s) ==
    [s EXCEPT !.header = At(s.lines, s.i),
              !.filePath = HeaderMatch(At(s.lines, s.i)),
              !.i = s.i + 1,
              !.pc = "meta"]

\* The condition of the metadata loop.
MetaCond(s) ==
    /\ InBounds(s.lines, s.i)
    /\ \/ At(s.lines, s.i) = Undefined
       \/ /\ ~IsFileHeader(At(s.lines, s.i))
          /\ ~IsHunkHeader(At(s.lines, s.i))
          /\ ~StartsWith(At(s.lines, s.i), MinusPath)
          /\ ~StartsWith(At(s.lines, s.i), PlusPath)
          /\ ~StartsWith(At(s.lines, s.i), BinaryMark)

SkipMetadataGuard(s) == s.pc = "meta" /\ MetaCond(s)

SkipMetadataStep(s) ==
    IF At(s.lines, s.i) = Undefined THEN Throw(s)
    ELSE [s EXCEPT !.i = s.i + 1]

\* The '--- ' and '+++ ' lines after the metadata, then const hunks = [].
PathLinesGuard(s) == s.pc = "meta" /\ ~MetaCond(s)

\* A plausible slip: the '+++ b/' path is used only when the header gave none.
PathLinesHeaderFirst(s) ==
    LET l1 == At(s.lines, s.i)
        i1 == IF InBounds(s.lines, s.i) /\ StartsWith(l1, MinusPath)
              THEN s.i + 1 ELSE s.i
        l2 == At(s.lines, i1)
        plus == InBounds(s.lines, i1) /\ StartsWith(l2, PlusPath)
    IN  [s EXCEPT
           !.filePath = IF s.filePath = <<>> /\ plus THEN PlusMatch(l2)
                        ELSE s.filePath,
           !.i = IF plus THEN i1 + 1 ELSE i1,
           !.hunks = <<>>,
           !.pc = "hunks"]

PathLinesStep(s) ==
    LET l1 == At(s.lines, s.i)
        i1 == IF InBounds(s.lines, s.i) /\ StartsWith(l1, MinusPath)
              THEN s.i + 1 ELSE s.i
        l2 == At(s.lines, i1)
        plus == InBounds(s.lines, i1) /\ StartsWith(l2, PlusPath)
    IN  IF \/ (InBounds(s.lines, s.i) /\ l1 = Undefined)
           \/ (InBounds(s.lines, i1) /\ l2 = Undefined)
        THEN Throw(s)
        ELSE [s EXCEPT
                !.filePath = IF plus /\ PlusMatch(l2) # <<>>
                             THEN PlusMatch(l2) ELSE s.filePath,
                !.i = IF plus THEN i1 + 1 ELSE i1,
                !.hunks = <<>>,
                !.pc = "hunks"]

\* A plausible slip: the hunk loop does not stop at the next file header.
HunkCondNoStop(s) == InBounds(s.lines, s.i)

\* while (i < lines.length && !lines[i].startsWith('diff --git'))
HunkCond(s) ==
    /\ InBounds(s.lines, s.i)
    /\ \/ At(s.lines, s.i) = Undefined
       \/ ~IsFileHeader(At(s.lines, s.i))

\* A plausible slip: a file without hunks is left out.
FinishFileNeedsHunks(s) ==
    IF s.filePath # <<>> /\ s.hunks # <<>>
    THEN [s EXCEPT !.files = Append(s.files, [header |-> s.header,
                                              filePath |-> s.filePath,
                                              hunks |-> s.hunks]),
                   !.pc = "outer"]
    ELSE [s EXCEPT !.pc = "outer"]

\* A plausible slip: the file is appended whatever its path.
FinishFileAlways(s) ==
    [s EXCEPT !.files = Append(s.files, [header |-> s.header,
                                         filePath |-> s.filePath,
                                         hunks |-> s.hunks]),
              !.pc = "outer"]

\* if (filePath) files.push({ header, filePath, hunks });
FinishFileGuard(s) == s.pc = "hunks" /\ ~HunkCond(s)

FinishFileStep(s) ==
    IF s.filePath # <<>>
    THEN [s EXCEPT !.files = Append(s.files, [header |-> s.header,
                                              filePath |-> s.filePath,
                                              hunks |-> s.hunks]),
                   !.pc = "outer"]
    ELSE [s EXCEPT !.pc = "outer"]

\* A plausible slip: a 'Binary ' line of the file block opens a hunk too.
HunkHeaderGuardBinary(s) ==
    /\ s.pc = "hunks"
    /\ HunkCond(s)
    /\ At(s.lines, s.i) # Undefined
    /\ \/ IsHunkHeader(At(s.lines, s.i))
       \/ StartsWith(At(s.lines, s.i), BinaryMark)

\* A '@@' line: the start values from rangeMatch, 1 and 1 without a match.
HunkHeaderGuard(s) ==
    /\ s.pc = "hunks"
    /\ HunkCond(s)
    /\ At(s.lines, s.i) # Undefined
    /\ IsHunkHeader(At(s.lines, s.i))

\* A plausible slip: the i++ after the '@@' line is left out.
HunkHeaderStays(s) ==
    LET rangeMatch == RangeMatch(At(s.lines, s.i))
    IN  [s EXCEPT
           !.hunkHeader = At(s.lines, s.i),
           !.oldLine = IF rangeMatch # <<>> THEN ParseInt(rangeMatch[1]) ELSE 1,
           !.newLine = IF rangeMatch # <<>> THEN ParseInt(rangeMatch[2]) ELSE 1,
           !.hunkLines = <<>>,
           !.pc = "body"]

HunkHeaderStep(s) ==
    LET rangeMatch == RangeMatch(At(s.lines, s.i))
    IN  [s EXCEPT
           !.hunkHeader = At(s.lines, s.i),
           !.oldLine = IF rangeMatch # <<>> THEN ParseInt(rangeMatch[1]) ELSE 1,
           !.newLine = IF rangeMatch # <<>> THEN ParseInt(rangeMatch[2]) ELSE 1,
           !.i = s.i + 1,
           !.hunkLines = <<>>,
           !.pc = "body"]

\* else { i++; }: a line of the file block outside every hunk.
SkipLineGuard(s) ==
    /\ s.pc = "hunks"
    /\ HunkCond(s)
    /\ \/ At(s.lines, s.i) = Undefined
       \/ ~IsHunkHeader(At(s.lines, s.i))

SkipLineStep(s) ==
    IF At(s.lines, s.i) = Undefined THEN Throw(s)
    ELSE [s EXCEPT !.i = s.i + 1]

\* The condition of the hunk body loop.
BodyCond(s) ==
    /\ InBounds(s.lines, s.i)
    /\ \/ At(s.lines, s.i) = Undefined
       \/ /\ ~IsHunkHeader(At(s.lines, s.i))
          /\ ~IsFileHeader(At(s.lines, s.i))

\* A plausible slip: the marker line falls through to the context branch.
ClassifyNoMarker(line, old, new) ==
    IF StartsWith(line, <<"+">>)
    THEN [type |-> "add", content |-> Slice(line, 1),
          oldLineNo |-> Null, newLineNo |-> new]
    ELSE IF StartsWith(line, <<"-">>)
    THEN [type |-> "remove", content |-> Slice(line, 1),
          oldLineNo |-> old, newLineNo |-> Null]
    ELSE [type |-> "context",
          content |-> IF StartsWith(line, <<" ">>) THEN Slice(line, 1) ELSE line,
          oldLineNo |-> old, newLineNo |-> new]

\* A plausible slip: an added line takes the old counter as well.
ClassifyAddOld(line, old, new) ==
    IF StartsWith(line, <<"+">>)
    THEN [type |-> "add", content |-> Slice(line, 1),
          oldLineNo |-> old, newLineNo |-> new]
    ELSE ClassifyNoMarker(line, old, new)

\* A plausible slip: the context branch keeps the leading space.
ClassifyKeepSpace(line, old, new) ==
    IF StartsWith(line, <<"+">>)
    THEN [type |-> "add", content |-> Slice(line, 1),
          oldLineNo |-> Null, newLineNo |-> new]
    ELSE IF StartsWith(line, <<"-">>)
    THEN [type |-> "remove", content |-> Slice(line, 1),
          oldLineNo |-> old, newLineNo |-> Null]
    ELSE IF StartsWith(line, NoNewlineMark)
    THEN [type |-> "no-newline", content |-> line,
          oldLineNo |-> Null, newLineNo |-> Null]
    ELSE [type |-> "context", content |-> line,
          oldLineNo |-> old, newLineNo |-> new]

\* The DiffLine pushed for a line of a hunk body.
Classify(line, old, new) ==
    IF StartsWith(line, <<"+">>)
    THEN [type |-> "add", content |-> Slice(line, 1),
          oldLineNo |-> Null, newLineNo |-> new]
    ELSE IF StartsWith(line, <<"-">>)
    THEN [type |-> "remove", content |-> Slice(line, 1),
          oldLineNo |-> old, newLineNo |-> Null]
    ELSE IF StartsWith(line, NoNewlineMark)
    THEN [type |-> "no-newline", content |-> line,
          oldLineNo |-> Null, newLineNo |-> Null]
    ELSE [type |-> "context",
          content |-> IF StartsWith(line, <<" ">>) THEN Slice(line, 1) ELSE line,
          oldLineNo |-> old, newLineNo |-> new]

\* A plausible slip: the old counter advances on every line.
AdvanceOldAlways(line, old) == old + 1

\* oldLine++ in the remove and context branches.
AdvanceOld(line, old) ==
    IF Classify(line, old, 1).oldLineNo # Null THEN old + 1 ELSE old

\* newLine++ in the add and context branches.
AdvanceNew(line, new) ==
    IF Classify(line, 1, new).newLineNo # Null THEN new + 1 ELSE new

BodyLineGuard(s) == s.pc = "body" /\ BodyCond(s)

\* A plausible slip: an empty line of a hunk body is passed over.
BodyLineSkipsEmpty(s) ==
    LET line == At(s.lines, s.i)
    IN  IF line = Undefined THEN Throw(s)
        ELSE IF line = <<>> THEN [s EXCEPT !.i = s.i + 1]
        ELSE [s EXCEPT
                !.hunkLines = Append(s.hunkLines,
                                     Classify(line, s.oldLine, s.newLine)),
                !.oldLine = AdvanceOld(line, s.oldLine),
                !.newLine = AdvanceNew(line, s.newLine),
                !.i = s.i + 1]

BodyLineStep(s) ==
    LET line == At(s.lines, s.i)
    IN  IF line = Undefined THEN Throw(s)
        ELSE [s EXCEPT
                !.hunkLines = Append(s.hunkLines,
                                     Classify(line, s.oldLine, s.newLine)),
                !.oldLine = AdvanceOld(line, s.oldLine),
                !.newLine = AdvanceNew(line, s.newLine),
                !.i = s.i + 1]

\* hunks.push({ header: hunkHeader, lines: hunkLines });
PushHunkGuard(s) == s.pc = "body" /\ ~BodyCond(s)

\* A plausible slip: the hunk is put in front of the earlier ones.
PushHunkInFront(s) ==
    [s EXCEPT !.hunks = <<[header |-> s.hunkHeader, lines |-> s.hunkLines]>>
                            \o s.hunks,
              !.pc = "hunks"]

PushHunkStep(s) ==
    [s EXCEPT !.hunks = Append(s.hunks, [header |-> s.hunkHeader,
                                         lines |-> s.hunkLines]),
              !.pc = "hunks"]

(***************************************************************************)
(* parseDiff as a function: the steps run to the end                       *)
(***************************************************************************)
Step(s) ==
    CASE s.pc = "start" -> SplitInputStep(s)
      [] ReturnGuard(s) -> ReturnStep(s)
      [] SeekHeaderGuard(s) -> SeekHeaderStep(s)
      [] FileHeaderGuard(s) -> FileHeaderStep(s)
      [] SkipMetadataGuard(s) -> SkipMetadataStep(s)
      [] PathLinesGuard(s) -> PathLinesStep(s)
      [] FinishFileGuard(s) -> FinishFileStep(s)
      [] HunkHeaderGuard(s) -> HunkHeaderStep(s)
      [] SkipLineGuard(s) -> SkipLineStep(s)
      [] BodyLineGuard(s) -> BodyLineStep(s)
      [] PushHunkGuard(s) -> PushHunkStep(s)

\* Some step of parseDiff can be taken.
CanStep(s) ==
    \/ s.pc = "start"
    \/ ReturnGuard(s)
    \/ SeekHeaderGuard(s)
    \/ FileHeaderGuard(s)
    \/ SkipMetadataGuard(s)
    \/ PathLinesGuard(s)
    \/ FinishFileGuard(s)
    \/ HunkHeaderGuard(s)
    \/ SkipLineGuard(s)
    \/ BodyLineGuard(s)
    \/ PushHunkGuard(s)

RECURSIVE Run(_)
Run(s) == IF s.pc \in {"done", "threw"} THEN s ELSE Run(Step(s))

\* The value parseDiff(r) returns.
ParseDiff(r) == Run(Entry(r)).files

(***************************************************************************)
(* GET /api/diff: the text handed to parseDiff                             *)
(***************************************************************************)
\* The literals of the fabricated block.
NewFileMode ==
    <<"n", "e", "w", " ", "f", "i", "l", "e", " ", "m", "o", "d", "e", " ",
      "1", "0", "0", "6", "4", "4">>
DevNullPath ==
    <<"-", "-", "-", " ", "/", "d", "e", "v", "/", "n", "u", "l", "l">>
UntrackedHunk == <<"@", "@", " ", "-", "0", ",", "0", " ", "+", "1", ",">>

RECURSIVE PlusLines(_)
\* content.split('\n').map((l) => `+${l}`)
PlusLines(ls) ==
    IF ls = <<>> THEN <<>> ELSE <<(<<"+">> \o ls[1])>> \o PlusLines(Tail(ls))

\* The block fabricated for one untracked file.
UntrackedBlock(file, content) ==
    <<NL>> \o DiffGitA \o file \o SpB \o file \o <<NL>>
    \o NewFileMode \o <<NL>>
    \o DevNullPath \o <<NL>>
    \o PlusB \o file \o <<NL>>
    \o UntrackedHunk \o NumToStr(Len(Split(content))) \o SpAtAt \o <<NL>>
    \o Join(PlusLines(Split(content)))
    \o <<NL>>

RECURSIVE ApiDiff(_, _)
\* fullDiff: the output of git diff, then one block per readable untracked
\* file, u a sequence of [file, content].
ApiDiff(diff, u) ==
    IF u = <<>> THEN diff
    ELSE ApiDiff(diff, SubSeq(u, 1, Len(u) - 1))
         \o UntrackedBlock(u[Len(u)].file, u[Len(u)].content)

(***************************************************************************)
(* The inputs                                                              *)
(***************************************************************************)
\* The longest input made of arbitrary lines.
MaxLines == 3

\* The longest hunk body git is made to emit.
MaxBody == 2

\* The most untracked files GET /api/diff is made to append.
MaxUntracked == 2

\* Lines of every shape parseDiff tells apart, and shapes it must not
\* mistake for them.
LinePool ==
    {<<"d", "i", "f", "f", " ", "-", "-", "g", "i", "t", " ", "a", "/", "x",
       " ", "b", "/", "y">>,
     <<"d", "i", "f", "f", " ", "-", "-", "g", "i", "t", " ", "x">>,
     <<" ", "d", "i", "f", "f", " ", "-", "-", "g", "i", "t", " ", "a", "/",
       "x", " ", "b", "/", "x">>,
     <<"-", "-", "-", " ", "a", "/", "x">>,
     <<"+", "+", "+", " ", "b", "/", "z">>,
     <<"+", "+", "+", " ", "/", "d", "e", "v", "/", "n", "u", "l", "l">>,
     <<"B", "i", "n", "a", "r", "y", " ", "f", "i", "l", "e", "s", " ", "d",
       "i", "f", "f", "e", "r">>,
     <<"@", "@", " ", "-", "3", ",", "2", " ", "+", "5", " ", "@", "@">>,
     <<"@", "@", " ", "x">>,
     <<"+", "p">>,
     <<" ", "c">>,
     <<>>,
     <<"\\", " ", "N", "o", " ", "n", "e", "w", "l", "i", "n", "e", " ",
       "a", "t", " ", "e", "n", "d", " ", "o", "f", " ", "f", "i", "l",
       "e">>}

SeqsUpTo(S, n) == UNION {[1..k -> S] : k \in 0..n}

\* Any text of up to MaxLines lines of the pool.
ArbitraryInputs == {Join(ls) : ls \in SeqsUpTo(LinePool, MaxLines)}

\* The note.md scenario: nine lines joined by newlines.
NoteMdLines ==
        <<<<"d", "i", "f", "f", " ", "-", "-", "g", "i", "t", " ", "a", "/",
            "n", "o", "t", "e", ".", "m", "d", " ", "b", "/", "n", "o", "t",
            "e", ".", "m", "d">>,
          <<"i", "n", "d", "e", "x", " ", "a", "b", "c", "1", "2", "3", ".",
            ".", "d", "e", "f", "4", "5", "6", " ", "1", "0", "0", "6", "4",
            "4">>,
          <<"-", "-", "-", " ", "a", "/", "n", "o", "t", "e", ".", "m",
            "d">>,
          <<"+", "+", "+", " ", "b", "/", "n", "o", "t", "e", ".", "m",
            "d">>,
          <<"@", "@", " ", "-", "1", ",", "2", " ", "+", "1", ",", "3", " ",
            "@", "@">>,
          <<" ", "#", " ", "H", "e", "l", "l", "o">>,
          <<"-", "o", "l", "d", " ", "l", "i", "n", "e">>,
          <<"+", "n", "e", "w", " ", "l", "i", "n", "e">>,
          <<"+", "a", "d", "d", "e", "d", " ", "l", "i", "n", "e">>>>

NoteMdInput == Join(NoteMdLines)

(***************************************************************************)
(* The output of git diff, as git writes it                                *)
(***************************************************************************)
Ops == {"ctx", "add", "rem"}

\* A body line: the prefix of its kind, then the text of the line.
OpLine(op) ==
    CASE op = "ctx" -> <<" ", "k">>
      [] op = "add" -> <<"+", "n">>
      [] op = "rem" -> <<"-", "o">>


CountOps(body, S) == Cardinality({k \in 1..Len(body) : body[k] \in S})

\* "<start>,<length>", the length left out when it is 1.
RangeText(start, len) ==
    IF len = 1 THEN NumToStr(start)
    ELSE NumToStr(start) \o <<",">> \o NumToStr(len)

NoNewlineLine ==
    <<"\\", " ", "N", "o", " ", "n", "e", "w", "l", "i", "n", "e", " ", "a",
      "t", " ", "e", "n", "d", " ", "o", "f", " ", "f", "i", "l", "e">>

RECURSIVE OpLinesFrom(_, _, _)
\* The body lines from the k-th on, the marker line after the m-th (a line
\* that is the last of its file and has no newline), no marker when m = 0.
OpLinesFrom(body, k, m) ==
    IF k > Len(body) THEN <<>>
    ELSE <<OpLine(body[k])>>
         \o (IF k = m THEN <<NoNewlineLine>> ELSE <<>>)
         \o OpLinesFrom(body, k + 1, m)

\* One hunk: the header git computes from the body, then the body lines.
GitHunkLines(h) ==
    <<(AtAtMinus \o RangeText(h.start, CountOps(h.body, {"ctx", "rem"}))
       \o SpPlus \o RangeText(h.start, CountOps(h.body, {"ctx", "add"}))
       \o SpAtAt)>>
    \o OpLinesFrom(h.body, 1, h.marker)

RECURSIVE GitHunksLines(_)
GitHunksLines(hs) ==
    IF hs = <<>> THEN <<>> ELSE GitHunkLines(hs[1]) \o GitHunksLines(Tail(hs))

IndexLine == <<"i", "n", "d", "e", "x", " ", "1", ".", ".", "2", " ", "1",
               "0", "0", "6", "4", "4">>

\* A path of plain characters, and a path git quotes (core.quotePath): the
\* name is put in double quotes with its bytes escaped.
PlainPath == <<"n", ".", "m", "d">>
QuotedPath == <<"\\", "3", "0", "3", "\\", "2", "5", "1">>

\* The header lines of a file block.
GitHeaderLines(f) ==
    IF f.quoted
    THEN <<DiffGit \o <<" ", "\"", "a", "/">> \o f.path
             \o <<"\"", " ", "\"", "b", "/">> \o f.path \o <<"\"">>,
           IndexLine,
           MinusPath \o <<"\"", "a", "/">> \o f.path \o <<"\"">>,
           PlusPath \o <<"\"", "b", "/">> \o f.path \o <<"\"">> >>
    ELSE <<DiffGitA \o f.path \o SpB \o f.path,
           IndexLine,
           MinusPath \o <<"a", "/">> \o f.path,
           PlusB \o f.path>>

RECURSIVE Terminated(_)
\* Every line followed by a newline.
Terminated(ls) ==
    IF ls = <<>> THEN <<>> ELSE ls[1] \o <<NL>> \o Terminated(Tail(ls))

\* The text git writes for one changed file.
GitFileText(f) == Terminated(GitHeaderLines(f) \o GitHunksLines(f.hunks))

Starts == {1, 12}

Bodies == UNION {[1..n -> Ops] : n \in 1..MaxBody}

HunkSpecs ==
    {h \in [start : Starts, body : Bodies, marker : 0..MaxBody] :
        h.marker <= Len(h.body)}

\* A later hunk of the same file.
SecondHunk == [start |-> 40, body |-> <<"rem", "add">>, marker |-> 0]

HunkLists == {<<h>> : h \in HunkSpecs} \cup {<<h, SecondHunk>> : h \in HunkSpecs}

PlainFiles == [path : {PlainPath}, quoted : {FALSE}, hunks : HunkLists]

QuotedFiles ==
    [path : {QuotedPath}, quoted : {TRUE},
     hunks : {<<h>> : h \in {g \in HunkSpecs : g.start = 1 /\ g.marker = 0}}]

\* A second changed file.
OtherFile ==
    [path |-> <<"z">>, quoted |-> FALSE,
     hunks |-> <<[start |-> 7, body |-> <<"ctx", "add">>, marker |-> 0]>>]

\* git diff with one changed file.
SingleFileDiffs == {GitFileText(f) : f \in PlainFiles \cup QuotedFiles}

\* git diff with no, one or two changed files.
GitOutputs ==
    {<<>>} \cup SingleFileDiffs
    \cup {GitFileText(f) \o GitFileText(OtherFile) : f \in PlainFiles}

(***************************************************************************)
(* What GET /api/diff returns                                              *)
(***************************************************************************)
\* The contents of an untracked file: empty, one line without and with its
\* newline, two lines.
Contents == {<<>>, <<"a">>, <<"a", NL>>, <<"a", NL, "b">>}

UntrackedName(k) == <<"u", DigitChar(k), ".", "m", "d">>

\* Up to MaxUntracked untracked files, the k-th named u<k>.md.
UntrackedLists ==
    UNION {{[k \in 1..n |-> [file |-> UntrackedName(k), content |-> c[k]]] :
               c \in [1..n -> Contents]} : n \in 1..MaxUntracked}

\* Nothing tracked has changed, or one file has.
TrackedBefore ==
    {<<>>,
     GitFileText([path |-> PlainPath, quoted |-> FALSE,
                  hunks |-> <<[start |-> 1, body |-> <<"rem", "add">>,
                               marker |-> 0]>>])}

ApiOutputs ==
    GitOutputs \cup {ApiDiff(d, u) : d \in TrackedBefore, u \in UntrackedLists}

\* Hunk headers where the range pattern is not at the start of the line, or
\* occurs a second time in the section heading.
RangeCornerInputs ==
    LET h == <<"d", "i", "f", "f", " ", "-", "-", "g", "i", "t", " ", "a", "/",
               "x", " ", "b", "/", "y">>
    IN  {Join(<<h, <<"@", "@", " ", "x", " ", "@", "@", " ", "-", "3", " ", "+", "5", ",", "2", " ", "@", "@">>,
                <<"+", "p">>, <<" ", "c">>>>),
         Join(<<h, <<"@", "@", " ", "-", "1", "2", " ", "+", "7", ",", "2", " ", "@", "@", " ", "f", " ", "@", "@", " ", "-", "1", " ", "+", "1", " ", "@", "@">>,
                <<" ", "c">>, <<"+", "p">>>>)}

Inputs ==
    ArbitraryInputs \cup {NoteMdInput} \cup ApiOutputs \cup RangeCornerInputs

(***************************************************************************)
(* The tools of the agent: strings, paths and the file system              *)
(***************************************************************************)
\* String.prototype.split(c) for a separator c of one character.
SplitBy(s, c) ==
    LET at == {k \in 1..Len(s) : s[k] = c}
        n == Cardinality(at)
        pos(j) == CHOOSE k \in at : Cardinality({m \in at : m <= k}) = j
        first(j) == IF j = 1 THEN 1 ELSE pos(j - 1) + 1
        last(j) == IF j = n + 1 THEN Len(s) ELSE pos(j) - 1
    IN  [j \in 1..(n + 1) |-> SubSeq(s, first(j), last(j))]

\* Array.prototype.join(c)
RECURSIVE JoinBy(_, _)
JoinBy(ls, c) ==
    IF ls = <<>> THEN <<>>
    ELSE IF Len(ls) = 1 THEN ls[1]
    ELSE ls[1] \o <<c>> \o JoinBy(Tail(ls), c)

\* Array.prototype.slice(b, e): a negative index counts from the end.
JsSlice(ls, b, e) ==
    LET n == Len(ls)
        from == IF b < 0 THEN (IF n + b < 0 THEN 0 ELSE n + b)
                ELSE (IF b > n THEN n ELSE b)
        to == IF e < 0 THEN (IF n + e < 0 THEN 0 ELSE n + e)
              ELSE (IF e > n THEN n ELSE e)
    IN  SubSeq(ls, from + 1, to)

\* The first position where p occurs in s, 0 when it does not occur.
\* The empty string occurs at the start.
IndexOf(s, p) ==
    LET ks == {k \in 1..(Len(s) + 1) : OccursAt(s, p, k) \/ (p = <<>> /\ k = 1)}
    IN  IF ks = {} THEN 0 ELSE SetMin(ks)

\* path.resolve: the segments of a path without '' and '.', then every
\* '..' removes the segment before it (none at the root).
RECURSIVE Collapse(_, _)
Collapse(segs, stack) ==
    IF segs = <<>> THEN stack
    ELSE IF Head(segs) = <<".", ".">>
    THEN Collapse(Tail(segs), SubSeq(stack, 1, Len(stack) - 1))
    ELSE Collapse(Tail(segs), Append(stack, Head(segs)))

\* path.resolve(dir, p) for an absolute dir; p may be empty.
Resolve(dir, p) ==
    LET Segments(full) ==
            SelectSeq(SplitBy(full, "/"), LAMBDA x : x # <<>> /\ x # <<".">>)
    IN  <<"/">> \o JoinBy(Collapse(Segments(IF StartsWith(p, <<"/">>) THEN p
                                            ELSE dir \o <<"/">> \o p),
                                   <<>>), "/")

\* path.dirname of an absolute, resolved path.
Dirname(p) ==
    LET at == {k \in 1..Len(p) : p[k] = "/"}
        k == CHOOSE x \in at : \A y \in at : y <= x
    IN  IF k = 1 THEN <<"/">> ELSE SubSeq(p, 1, k - 1)

\* The number of pieces of s.split(p) minus one, for a non-empty p: the
\* occurrences of p found from left to right, each after the end of the one
\* before.
RECURSIVE Occurrences(_, _)
Occurrences(s, p) ==
    IF IndexOf(s, p) = 0 THEN 0
    ELSE 1 + Occurrences(SubSeq(s, IndexOf(s, p) + Len(p), Len(s)), p)

\* s.split(p).length: ''.split('') is [], s.split('') has one piece for each
\* character.
SplitLength(s, p) == IF p = <<>> THEN Len(s) ELSE Occurrences(s, p) + 1

\* A plausible slip: '$' is an ordinary character of the replacement.
SubstituteNothing(t, matched, before, after) == t

\* The text String.prototype.replace puts in for a string pattern: in the
\* replacement t, '$$' stands for '$', '$&' for the matched text, '$' with
\* a grave accent for the text before it and '$' with an apostrophe for
\* the text after it.  A character outside ASCII, and the grave accent, is
\* one character of the texts, written as its code point ("U+0060").
RECURSIVE Substitute(_, _, _, _)
Substitute(t, matched, before, after) ==
    IF t = <<>> THEN <<>>
    ELSE IF t[1] = "$" /\ Len(t) >= 2 /\ t[2] \in {"$", "&", "U+0060", "'"}
    THEN (CASE t[2] = "$" -> <<"$">>
            [] t[2] = "&" -> matched
            [] t[2] = "U+0060" -> before
            [] t[2] = "'" -> after)
         \o Substitute(SubSeq(t, 3, Len(t)), matched, before, after)
    ELSE <<t[1]>> \o Substitute(Tail(t), matched, before, after)

\* content.replace(p, t) for a string p: the first occurrence only.
Replace(content, p, t) ==
    LET k == IndexOf(content, p)
        before == SubSeq(content, 1, k - 1)
        after == SubSeq(content, k + Len(p), Len(content))
    IN  IF k = 0 THEN content
        ELSE before \o Substitute(t, p, before, after) \o after

\* String(n) for an integer.
IntToStr(n) == IF n < 0 THEN <<"-">> \o NumToStr(0 - n) ELSE NumToStr(n)

\* String.prototype.padStart(width, ' ')
PadStart(s, width) ==
    IF Len(s) >= width THEN s ELSE [j \in 1..(width - Len(s)) |-> " "] \o s

\* addLineNumbers(content, startLine)
AddLineNumbers(content, startLine) ==
    LET Numbered(ls, width) ==
            Join([j \in 1..Len(ls) |->
                    PadStart(IntToStr(startLine + j - 1), width)
                        \o <<"\t">> \o ls[j]])
        WithWidth(ls) ==
            Numbered(ls, Len(IntToStr(startLine + Len(ls) - 1)))
    IN  WithWidth(Split(content))

\* The file system: the content of every file, and the directories.
ExistsSync(d, p) == p \in DOMAIN d.files \/ p \in d.dirs

\* The last segment of a path.
BaseName(p) ==
    LET After(k) == SubSeq(p, k + 1, Len(p))
    IN  After(CHOOSE k \in 1..Len(p) :
                 p[k] = "/" /\ \A j \in (k + 1)..Len(p) : p[j] # "/")

\* What a call of the file system gives: it threw (text is the message of
\* the error), or it returned and left the file system disk.
\* mkdirSync(dir, { recursive: true }) makes dir and the directories above
\* it.
MkdirSync(d, dir) ==
    LET Ancestors ==
            {<<"/">>, dir} \cup {SubSeq(dir, 1, k - 1) :
                                   k \in {j \in 2..Len(dir) : dir[j] = "/"}}
        FsThrew(msg) == [threw |-> TRUE, text |-> msg]
    IN
    IF dir \in DOMAIN d.files
    THEN FsThrew(<<"E", "E", "X", "I", "S", "T", ":", " ", "f", "i", "l",
        "e", " ", "a", "l", "r", "e", "a", "d", "y", " ", "e", "x", "i", "s",
        "t", "s", ",", " ", "m", "k", "d", "i", "r", " ",
        "'">> \o dir \o <<"'">>)
    ELSE IF \E a \in Ancestors : a \in DOMAIN d.files
    THEN FsThrew(<<"E", "N", "O", "T", "D", "I", "R", ":", " ", "n", "o",
        "t", " ", "a", " ", "d", "i", "r", "e", "c", "t", "o", "r", "y", ",",
        " ", "m", "k", "d", "i", "r", " ", "'">> \o dir \o <<"'">>)
    ELSE [threw |-> FALSE,
        disk |-> [d EXCEPT !.dirs = d.dirs \cup Ancestors]]

\* writeFileSync(p, text, 'utf-8')
WriteFileSync(d, p, text) ==
    LET FsThrew(msg) == [threw |-> TRUE, text |-> msg]
    IN
    IF p \in d.dirs
    THEN FsThrew(<<"E", "I", "S", "D", "I", "R", ":", " ", "i", "l", "l",
        "e", "g", "a", "l", " ", "o", "p", "e", "r", "a", "t", "i", "o", "n",
        " ", "o", "n", " ", "a", " ", "d", "i", "r", "e", "c", "t", "o", "r",
        "y", ",", " ", "o", "p", "e", "n", " ", "'">> \o p \o <<"'">>)
    ELSE IF Dirname(p) \notin d.dirs
    THEN FsThrew(<<"E", "N", "O", "E", "N", "T", ":", " ", "n", "o", " ",
        "s", "u", "c", "h", " ", "f", "i", "l", "e", " ", "o", "r", " ", "d",
        "i", "r", "e", "c", "t", "o", "r", "y", ",", " ", "o", "p", "e", "n",
        " ", "'">> \o p \o <<"'">>)
    ELSE [threw |-> FALSE,
          disk |-> [d EXCEPT !.files = [q \in DOMAIN d.files \cup {p} |->
                                          IF q = p THEN text ELSE d.files[q]]]]

\* readFileSync(p, 'utf-8') of a path that exists
ReadFileSync(d, p) ==
    LET FsThrew(msg) == [threw |-> TRUE, text |-> msg]
    IN
    IF p \in d.dirs
    THEN FsThrew(<<"E", "I", "S", "D", "I", "R", ":", " ", "i", "l", "l",
        "e", "g", "a", "l", " ", "o", "p", "e", "r", "a", "t", "i", "o", "n",
        " ", "o", "n", " ", "a", " ", "d", "i", "r", "e", "c", "t", "o", "r",
        "y", ",", " ", "r", "e", "a", "d">>)
    ELSE [threw |-> FALSE, text |-> d.files[p]]

\* localeCompare on the names in use: '.' before the letters, the letters in
\* alphabetical order.
RECURSIVE NameBefore(_, _)
NameBefore(x, y) ==
    IF y = <<>> THEN FALSE
    ELSE IF x = <<>> THEN TRUE
    ELSE IF x[1] = y[1] THEN NameBefore(Tail(x), Tail(y))
    ELSE LET CharOrder == <<".", "a", "b", "c", "d", "e", "f", "g", "h",
                 "i", "j", "k", "l", "m", "n", "o", "p", "q", "r", "s", "t",
                 "u", "v", "w", "x", "y", "z">>
             CharRank(c) ==
                 CHOOSE k \in 1..Len(CharOrder) : CharOrder[k] = c
         IN  CharRank(x[1]) < CharRank(y[1])

\* readdirSync(dirPath) without '.git*' and 'node_modules', directories
\* first, then by name.
Entries(d, dirPath) ==
    LET Kept(name) ==
            /\ ~StartsWith(name, <<".", "g", "i", "t">>)
            /\ name # <<"n", "o", "d", "e", "_", "m", "o", "d", "u", "l",
                "e", "s">>
        before(p, q) ==
            \/ p \in d.dirs /\ q \notin d.dirs
            \/ /\ (p \in d.dirs) = (q \in d.dirs)
               /\ NameBefore(BaseName(p), BaseName(q))
        Sorted(all) ==
            CHOOSE es \in [1..Cardinality(all) -> all] :
                \A a, b \in 1..Cardinality(all) :
                    a < b => before(es[a], es[b])
    IN  Sorted({p \in (DOMAIN d.files \cup d.dirs) \ {<<"/">>} :
                  Dirname(p) = dirPath /\ Kept(BaseName(p))})

\* listDirectory(dirPath, prefix): the pieces it pushes from entry k on, and
\* their join.
RECURSIVE ListDirectory(_, _, _)
RECURSIVE ListFrom(_, _, _, _)
ListFrom(d, es, k, prefix) ==
    IF k > Len(es) THEN <<>>
    ELSE LET isLast == k = Len(es)
             connector == IF isLast THEN <<"U+2514", "U+2500", "U+2500",
                 " ">> ELSE <<"U+251C", "U+2500", "U+2500", " ">>
             childPrefix == IF isLast THEN <<" ", " ", " ",
                 " ">> ELSE <<"U+2502", " ", " ", " ">>
             isDir == es[k] \in d.dirs
             Pushed(line, subtree) ==
                 IF subtree # <<>> THEN <<line, subtree>> ELSE <<line>>
         IN  Pushed(prefix \o connector \o BaseName(es[k])
                        \o (IF isDir THEN <<"/">> ELSE <<>>),
                    IF isDir
                    THEN ListDirectory(d, es[k], prefix \o childPrefix)
                    ELSE <<>>)
                \o ListFrom(d, es, k + 1, prefix)

ListDirectory(d, dirPath, prefix) ==
    Join(ListFrom(d, Entries(d, dirPath), 1, prefix))

\* The directories listDirectory reads, dirPath and those below it that are
\* not left out.
RECURSIVE ListedDirs(_, _)
ListedDirs(d, dirPath) ==
    LET Below(es) ==
            UNION {ListedDirs(d, es[k]) :
                     k \in {j \in 1..Len(es) : es[j] \in d.dirs}}
    IN  {dirPath} \cup Below(Entries(d, dirPath))

(***************************************************************************)
(* The tools of the agent: truncate, safePath, bash and text_editor        *)
(***************************************************************************)
MAX_OUTPUT_CHARS == 10000

\* A plausible slip: the text is cut one character late.
TruncateLate(text) ==
    IF Len(text) <= MAX_OUTPUT_CHARS + 1 THEN text
    ELSE SubSeq(text, 1, MAX_OUTPUT_CHARS + 1)
            \o <<NL, NL, ".", ".", ".", " ", "[", "t", "r", "u", "n", "c",
                "a", "t", "e", "d", " ", "U+2014", " ">>
            \o IntToStr(Len(text) - MAX_OUTPUT_CHARS) \o <<" ", "c", "h",
                "a", "r", "s", " ", "o", "m", "i", "t", "t", "e", "d", "]">>

\* truncate(text)
Truncate(text) ==
    IF Len(text) <= MAX_OUTPUT_CHARS THEN text
    ELSE SubSeq(text, 1, MAX_OUTPUT_CHARS)
            \o <<NL, NL, ".", ".", ".", " ", "[", "t", "r", "u", "n", "c",
                "a", "t", "e", "d", " ", "U+2014", " ">>
            \o IntToStr(Len(text) - MAX_OUTPUT_CHARS) \o <<" ", "c", "h",
                "a", "r", "s", " ", "o", "m", "i", "t", "t", "e", "d", "]">>

\* The notes directory the tools are created for.
NotesDir == <<"/", "r", "/", "n">>

\* safePath(notesDir, filePath), filePath as `path`: the resolved path, or
\* the error thrown.
SafePath(notesDir, path) ==
    LET resolved == Resolve(notesDir, path)
    IN  IF ~StartsWith(resolved, Resolve(notesDir, <<>>))
        THEN [threw |-> TRUE, text |-> <<"P", "a", "t", "h", " ", "t", "r",
            "a", "v", "e", "r", "s", "a", "l", " ", "b", "l", "o", "c", "k",
            "e", "d", ":", " ">> \o path]
        ELSE [threw |-> FALSE, text |-> resolved]

\* What execute does: the value it returns or the message of the error it
\* throws, the file system it leaves, the paths it read and wrote.
Returned(text, d, reads, writes) ==
    [threw |-> FALSE, text |-> text, disk |-> d, reads |-> reads,
        writes |-> writes]

Threw(msg, d, reads, writes) ==
    [threw |-> TRUE, text |-> msg, disk |-> d, reads |-> reads,
        writes |-> writes]

\* case 'view'
ViewCommand(d, a) ==
    LET View(sp) ==
      LET p == sp.text
          ls == Split(d.files[p])
      IN  IF sp.threw THEN Threw(sp.text, d, {}, {})
        ELSE IF ~ExistsSync(d, p)
        THEN Returned(<<"E", "r", "r", "o", "r", ":", " ", "P", "a", "t",
            "h", " ", "d", "o", "e", "s", " ", "n", "o", "t", " ", "e", "x",
            "i", "s", "t", ":", " ">> \o a.path, d, {}, {})
        ELSE IF p \in d.dirs
        THEN Returned(<<"D", "i", "r", "e", "c", "t", "o", "r", "y", " ",
            "l", "i", "s", "t", "i", "n", "g", " ", "o", "f",
            " ">> \o a.path \o <<":", NL>>
                         \o ListDirectory(d, p, <<>>),
                      d, ListedDirs(d, p), {})
        ELSE IF a.view_range # <<>>
        THEN Returned(AddLineNumbers(
                         Join(JsSlice(ls, a.view_range[1] - 1,
                             a.view_range[2])),
                         a.view_range[1]),
                      d, {p}, {})
        ELSE Returned(AddLineNumbers(d.files[p], 1), d, {p}, {})
    IN  View(SafePath(NotesDir, a.path))

\* case 'create'
CreateCommand(d, a) ==
    LET Written(p, mk, wr) ==
            IF wr.threw
            THEN Threw(wr.text, mk.disk, {}, mk.disk.dirs \ d.dirs)
            ELSE Returned(<<"F", "i", "l", "e", " ", "c", "r", "e", "a",
                "t", "e", "d", ":", " ">> \o a.path, wr.disk, {},
                          {p} \cup (mk.disk.dirs \ d.dirs))
        Made(p, mk) ==
            IF mk.threw THEN Threw(mk.text, d, {}, {})
            ELSE Written(p, mk, WriteFileSync(mk.disk, p, a.file_text))
        Create(sp) ==
            IF sp.threw THEN Threw(sp.text, d, {}, {})
            ELSE Made(sp.text, MkdirSync(d, Dirname(sp.text)))
    IN  Create(SafePath(NotesDir, a.path))

\* case 'str_replace'; the hints of its messages differ between the two
\* versions.
StrReplaceCommand(b, d, a) ==
    LET NotFoundHint ==
          IF b = "tools.ts"
          THEN <<".", " ", "M", "a", "k", "e", " ", "s", "u", "r", "e", " ", "t",
              "h", "e", " ", "s", "t", "r", "i", "n", "g", " ", "m", "a", "t", "c",
              "h", "e", "s", " ", "e", "x", "a", "c", "t", "l", "y", ",", " ", "i",
              "n", "c", "l", "u", "d", "i", "n", "g", " ", "w", "h", "i", "t", "e",
              "s", "p", "a", "c", "e", ".">>
          ELSE <<".", " ", "M", "a", "k", "e", " ", "s", "u", "r", "e", " ", "i",
              "t", " ", "m", "a", "t", "c", "h", "e", "s", " ", "e", "x", "a", "c",
              "t", "l", "y", ",", " ", "i", "n", "c", "l", "u", "d", "i", "n", "g",
              " ", "w", "h", "i", "t", "e", "s", "p", "a", "c", "e", ".">>
        NotUniqueHint ==
          IF b = "tools.ts"
          THEN <<".", " ", "I", "t", " ", "m", "u", "s", "t", " ", "a", "p", "p",
              "e", "a", "r", " ", "e", "x", "a", "c", "t", "l", "y", " ", "o", "n",
              "c", "e", " ", "f", "o", "r", " ", "a", " ", "s", "a", "f", "e", " ",
              "r", "e", "p", "l", "a", "c", "e", "m", "e", "n", "t", ".", " ", "I",
              "n", "c", "l", "u", "d", "e", " ", "m", "o", "r", "e", " ", "s", "u",
              "r", "r", "o", "u", "n", "d", "i", "n", "g", " ", "c", "o", "n", "t",
              "e", "x", "t", " ", "t", "o", " ", "m", "a", "k", "e", " ", "i", "t",
              " ", "u", "n", "i", "q", "u", "e", ".">>
          ELSE <<".", " ", "I", "t", " ", "m", "u", "s", "t", " ", "a", "p", "p",
              "e", "a", "r", " ", "e", "x", "a", "c", "t", "l", "y", " ", "o", "n",
              "c", "e", ".", " ", "I", "n", "c", "l", "u", "d", "e", " ", "m", "o",
              "r", "e", " ", "c", "o", "n", "t", "e", "x", "t", " ", "t", "o", " ",
              "m", "a", "k", "e", " ", "i", "t", " ", "u", "n", "i", "q", "u", "e",
              ".">>
        StrReplace(sp) ==
      LET p == sp.text
          rd == ReadFileSync(d, p)
          content == rd.text
          occurrences == SplitLength(content, a.old_str) - 1
          updated == Replace(content, a.old_str, a.new_str)
      IN  IF sp.threw THEN Threw(sp.text, d, {}, {})
        ELSE IF ~ExistsSync(d, p)
        THEN Returned(<<"E", "r", "r", "o", "r", ":", " ", "F", "i", "l",
            "e", " ", "d", "o", "e", "s", " ", "n", "o", "t", " ", "e", "x",
            "i", "s", "t", ":", " ">> \o a.path, d, {}, {})
        ELSE IF rd.threw THEN Threw(rd.text, d, {}, {})
        ELSE IF occurrences = 0
        THEN Returned(<<"E", "r", "r", "o", "r", ":", " ", "o", "l", "d",
            "_", "s", "t", "r", " ", "n", "o", "t", " ", "f", "o", "u", "n",
            "d", " ", "i", "n", " ">> \o a.path \o NotFoundHint,
                      d, {p}, {})
        ELSE IF occurrences > 1
        THEN Returned(<<"E", "r", "r", "o", "r", ":", " ", "o", "l", "d",
            "_", "s", "t", "r", " ", "f", "o", "u", "n", "d",
            " ">> \o IntToStr(occurrences)
                         \o <<" ", "t", "i", "m", "e", "s", " ", "i", "n",
                             " ">> \o a.path \o NotUniqueHint,
                      d, {p}, {})
        ELSE Returned(<<"S", "u", "c", "c", "e", "s", "s", "f", "u", "l",
            "l", "y", " ", "r", "e", "p", "l", "a", "c", "e", "d", " ", "t",
            "e", "x", "t", " ", "i", "n", " ">> \o a.path,
                      WriteFileSync(d, p, updated).disk, {p}, {p})
    IN  StrReplace(SafePath(NotesDir, a.path))

\* A plausible slip: the new line is put before line k, not after it.
SpliceBefore(ls, k, x) ==
    IF k = 0 THEN <<x>> \o ls
    ELSE SubSeq(ls, 1, k - 1) \o <<x>> \o SubSeq(ls, k, Len(ls))

\* lines.splice(k, 0, x) for 0 <= k <= lines.length
Splice(ls, k, x) == SubSeq(ls, 1, k) \o <<x>> \o SubSeq(ls, k + 1, Len(ls))

\* case 'insert'
InsertCommand(d, a) ==
    LET Insert(sp) ==
      LET p == sp.text
          rd == ReadFileSync(d, p)
          ls == Split(rd.text)
          insertLine == a.insert_line
      IN  IF sp.threw THEN Threw(sp.text, d, {}, {})
        ELSE IF ~ExistsSync(d, p)
        THEN Returned(<<"E", "r", "r", "o", "r", ":", " ", "F", "i", "l",
            "e", " ", "d", "o", "e", "s", " ", "n", "o", "t", " ", "e", "x",
            "i", "s", "t", ":", " ">> \o a.path, d, {}, {})
        ELSE IF rd.threw THEN Threw(rd.text, d, {}, {})
        ELSE IF insertLine < 0 \/ insertLine > Len(ls)
        THEN Returned(<<"E", "r", "r", "o", "r", ":", " ", "i", "n", "s",
            "e", "r", "t", "_", "l", "i", "n", "e",
            " ">> \o IntToStr(insertLine)
                         \o <<" ", "i", "s", " ", "o", "u", "t", " ", "o",
                             "f", " ", "r", "a", "n", "g", "e", " ", "(",
                             "0", "-">> \o IntToStr(Len(ls)) \o <<")">>,
                      d, {p}, {})
        ELSE Returned(<<"S", "u", "c", "c", "e", "s", "s", "f", "u", "l",
            "l", "y", " ", "i", "n", "s", "e", "r", "t", "e", "d", " ", "t",
            "e", "x", "t", " ", "a", "f", "t", "e", "r", " ", "l", "i", "n",
            "e", " ">>
                         \o IntToStr(insertLine) \o <<" ", "i", "n",
                             " ">> \o a.path,
                      WriteFileSync(d, p, Join(Splice(ls, insertLine,
                          a.new_str))).disk,
                      {p}, {p})
    IN  Insert(SafePath(NotesDir, a.path))

\* default: a command the switch does not know
UnknownCommand(d, a) ==
    Returned(<<"E", "r", "r", "o", "r", ":", " ", "U", "n", "k", "n", "o",
        "w", "n", " ", "c", "o", "m", "m", "a", "n", "d", ":",
        " ">> \o a.command, d, {}, {})

\* execute of the text editor tool.  The version of part_005 has the switch
\* in a try block and returns the message of what is thrown.
Execute(b, d, a) ==
    LET Try(r) ==
            IF b = "part_005" /\ r.threw
            THEN [r EXCEPT !.threw = FALSE, !.text = <<"E", "r", "r", "o",
                "r", ":", " ">> \o r.text]
            ELSE r
    IN  Try(CASE a.command = <<"v", "i", "e", "w">> -> ViewCommand(d, a)
              [] a.command = <<"c", "r", "e", "a", "t",
                  "e">> -> CreateCommand(d, a)
              [] a.command = <<"s", "t", "r", "_", "r", "e", "p", "l", "a",
                  "c", "e">> -> StrReplaceCommand(b, d, a)
              [] a.command = <<"i", "n", "s", "e", "r",
                  "t">> -> InsertCommand(d, a)
              [] OTHER -> UnknownCommand(d, a))

\* execute of the bash tool, for what execSync gave: it returned stdout, or
\* threw an error with stdout, stderr and message.
BashExecute(x) ==
    IF x.ok
    THEN Truncate(IF x.stdout # <<>> THEN x.stdout ELSE <<"(", "n", "o", " ",
        "o", "u", "t", "p", "u", "t", ")">>)
    ELSE LET output == Join(SelectSeq(<<x.stdout, x.stderr>>,
        LAMBDA t : t # <<>>))
         IN  Truncate(IF output # <<>> THEN output
                      ELSE IF x.message # <<>> THEN x.message
                      ELSE <<"C", "o", "m", "m", "a", "n", "d", " ", "f",
                          "a", "i", "l", "e", "d">>)

\* The state of the tools before any call: the notes directory /r/n with
\* a file, a directory with a file and the .git directory; beside it a
\* directory whose name starts with the name of the notes directory; a file
\* above it.
InitialDisk ==
    [files |-> (<<"/", "r", "/", "n", "/", "a">> :> <<"a", NL, "b", "b", NL>>)
                 @@ (<<"/", "r", "/", "n", "/", "d", "/", "e">> :> <<"a",
                     "b">>)
                 @@ (<<"/", "r", "/", "n", "x", "/", "s">> :> <<"s">>)
                 @@ (<<"/", "e">> :> <<"s">>),
     dirs |-> {<<"/">>, <<"/", "r">>, <<"/", "r", "/", "n">>, <<"/", "r",
         "/", "n", "/", ".", "g", "i", "t">>, <<"/", "r", "/", "n", "/",
         "d">>, <<"/", "r", "/", "n", "x">>}]

\* The arguments of a call of the text editor tool, and of the bash tool
\* together with what execSync gave.
EditorCall(c, p, ft, os, ns, il, vr) ==
    [path |-> p, view_range |-> vr, file_text |-> ft, old_str |-> os,
     new_str |-> ns, insert_line |-> il, command |-> c, ok |-> TRUE,
     stdout |-> <<>>, stderr |-> <<>>, message |-> <<>>,
     tool |-> "text_editor"]

BashCall(x) ==
    [path |-> <<>>, view_range |-> <<>>, file_text |-> <<>>,
     old_str |-> <<>>, new_str |-> <<>>, insert_line |-> 0,
     command |-> x.command, ok |-> x.ok, stdout |-> x.stdout,
     stderr |-> x.stderr, message |-> x.message, tool |-> "bash"]

NoCall ==
    [path |-> <<>>, view_range |-> <<>>, file_text |-> <<>>,
     old_str |-> <<>>, new_str |-> <<>>, insert_line |-> 0,
     command |-> <<>>, ok |-> TRUE, stdout |-> <<>>, stderr |-> <<>>,
     message |-> <<>>, tool |-> "none"]

\* No tool has been called.
ToolsIdle ==
    /\ disk = InitialDisk
    /\ diskBefore = InitialDisk
    /\ call = NoCall
    /\ reply = [threw |-> FALSE, text |-> <<>>]
    /\ io = [reads |-> {}, writes |-> {}]
    /\ ncalls = 0

(***************************************************************************)
(* ToolCall and DiffView: what is rendered for a text                      *)
(***************************************************************************)
\* The characters \s matches, of those the texts are made of.
WhiteSpace == {" ", "\t", "\n", "\r", "\f"}

\* /^@@\s+-\d+/.test(text): the pattern has no m flag, ^ is the start of
\* the text.
StartsWithRange(text) ==
    /\ StartsWith(text, AtAt)
    /\ \E e \in 4..(Len(text) - 1) :
          /\ \A j \in 3..(e - 1) : text[j] \in WhiteSpace
          /\ text[e] = "-"
          /\ text[e + 1] \in Digits

\* looksLikeDiff of ToolCall.tsx
LooksLikeDiff(text) ==
    \/ \E k \in 1..Len(text) : OccursAt(text, DiffGit, k)
    \/ StartsWithRange(text)
    \/ \E k \in 1..Len(text) : OccursAt(text, <<NL>> \o AtAt \o <<" ">>, k)

\* What a component renders: nothing, one <pre> with a text, or one
\* DiffFileView per DiffFile.
Nothing == [kind |-> "nothing", text |-> <<>>, blocks |-> <<>>]

Pre(text) == [kind |-> "pre", text |-> text, blocks |-> <<>>]

FileViews(fs) == [kind |-> "files", text |-> <<>>, blocks |-> fs]

\* The tool results ToolCall is given: any text of fewer than MaxLines lines
\* of the pool, and the texts with the special hunk headers.
ToolResults ==
    {Join(ls) : ls \in SeqsUpTo(LinePool, MaxLines - 1)} \cup RangeCornerInputs

(***************************************************************************)
(* The state machine of one rendering of a text                            *)
(***************************************************************************)
Init ==
    /\ \/ via = "DiffView" /\ raw \in Inputs /\ pc = "start"
       \/ via = "ToolCall" /\ raw \in ToolResults /\ pc = "toolcall"
    /\ shown = Nothing
    /\ returned = <<>>
    /\ build = "part_005"
    /\ ToolsIdle
    /\ ServerIdle
    /\ PanelIdle
    /\ lines = <<>>
    /\ i = 0
    /\ files = <<>>
    /\ header = <<>>
    /\ filePath = <<>>
    /\ hunks = <<>>
    /\ hunkHeader = <<>>
    /\ oldLine = 1
    /\ newLine = 1
    /\ hunkLines = <<>>

SplitInput == pc = "start" /\ Update(SplitInputStep(Cur))

Return == ReturnGuard(Cur) /\ Update(ReturnStep(Cur))

SeekHeader == SeekHeaderGuard(Cur) /\ Update(SeekHeaderStep(Cur))

FileHeader == FileHeaderGuard(Cur) /\ Update(FileHeaderStep(Cur))

SkipMetadata == SkipMetadataGuard(Cur) /\ Update(SkipMetadataStep(Cur))

PathLines == PathLinesGuard(Cur) /\ Update(PathLinesStep(Cur))

FinishFile == FinishFileGuard(Cur) /\ Update(FinishFileStep(Cur))

HunkHeader == HunkHeaderGuard(Cur) /\ Update(HunkHeaderStep(Cur))

SkipLine == SkipLineGuard(Cur) /\ Update(SkipLineStep(Cur))

BodyLine == BodyLineGuard(Cur) /\ Update(BodyLineStep(Cur))

PushHunk == PushHunkGuard(Cur) /\ Update(PushHunkStep(Cur))

\* DiffPanel: (data.diff.match(/^diff --git/gm) || []).length, the places
\* where 'diff --git' stands at the start of the text or behind a line
\* terminator.
FileCount(text) ==
    Cardinality({k \in 1..Len(text) :
                    /\ OccursAt(text, DiffGit, k)
                    /\ (k = 1 \/ text[k - 1] \in {NL, "\r"})})

\* A plausible slip: the raw text is shown when there are files.
DiffViewRenderSwapped(fs, diff) ==
    IF Len(fs) = 0 THEN FileViews(fs) ELSE Pre(diff)

\* What DiffView returns once parseDiff(diff) has returned fs.
DiffViewRender(fs, diff) ==
    IF Len(fs) = 0 THEN Pre(diff) ELSE FileViews(fs)

\* DiffView: const files = parseDiff(diff) has returned; the <pre> with the
\* text, or the file blocks.
DiffViewReturn ==
    /\ pc = "done"
    /\ pc' = "shown"
    /\ shown' = DiffViewRender(files, raw)
    /\ UNCHANGED <<raw, lines, i, files, header, filePath, hunks, hunkHeader,
                   oldLine, newLine, hunkLines, via, returned, toolVars, serverVars, panelVars>>

\* ToolCall, the result part: nothing for an empty result, <DiffView> for a
\* text that looks like a diff, a <pre> with the text otherwise.
ToolCallResult ==
    /\ pc = "toolcall"
    /\ IF Len(raw) > 0 /\ LooksLikeDiff(raw)
       THEN pc' = "start" /\ shown' = shown
       ELSE /\ pc' = "shown"
            /\ shown' = IF Len(raw) > 0 THEN Pre(raw) ELSE Nothing
    /\ UNCHANGED <<raw, lines, i, files, header, filePath, hunks, hunkHeader,
                   oldLine, newLine, hunkLines, via, returned, toolVars, serverVars, panelVars>>

Next ==
    \/ ToolCallResult
    \/ DiffViewReturn
    \/ SplitInput
    \/ Return
    \/ SeekHeader
    \/ FileHeader
    \/ SkipMetadata
    \/ PathLines
    \/ FinishFile
    \/ HunkHeader
    \/ SkipLine
    \/ BodyLine
    \/ PushHunk

Spec == Init /\ [][Next]_vars

(***************************************************************************)
(* The state machine of repeated renderings                                *)
(***************************************************************************)
\* The most calls of parseDiff in a row.
MaxCalls == 3

\* Texts rendered one after the other: no text, a text without diff lines,
\* a hunk without a file header, the note.md scenario, and two file blocks
\* after a plain line, the second with a hunk header with a late range.
CallInputs ==
    {<<>>,
     <<" ", "c">>,
     Join(<<<<"@", "@", " ", "-", "3", ",", "2", " ", "+", "5", " ", "@", "@">>,
            <<"+", "p">>>>),
     NoteMdInput,
     Join(<<<<" ", "c">>,
            <<"d", "i", "f", "f", " ", "-", "-", "g", "i", "t", " ", "a", "/", "x", " ", "b", "/", "y">>,
            <<"B", "i", "n", "a", "r", "y", " ", "f", "i", "l", "e", "s", " ", "d", "i", "f", "f", "e", "r">>,
            <<"d", "i", "f", "f", " ", "-", "-", "g", "i", "t", " ", "a", "/", "x", " ", "b", "/", "y">>,
            <<"+", "+", "+", " ", "b", "/", "z">>,
            <<"@", "@", " ", "x", " ", "@", "@", " ", "-", "3", " ", "+", "5", ",", "2", " ", "@", "@">>,
            <<"-", "p">>>>)}

InitCalls ==
    /\ raw \in CallInputs
    /\ \/ via = "DiffView" /\ pc = "start"
       \/ via = "ToolCall" /\ pc = "toolcall"
    /\ shown = Nothing
    /\ returned = <<>>
    /\ build = "part_005"
    /\ ToolsIdle
    /\ ServerIdle
    /\ PanelIdle
    /\ lines = <<>>
    /\ i = 0
    /\ files = <<>>
    /\ header = <<>>
    /\ filePath = <<>>
    /\ hunks = <<>>
    /\ hunkHeader = <<>>
    /\ oldLine = 1
    /\ newLine = 1
    /\ hunkLines = <<>>

\* The rendering that is over called parseDiff.
CalledParseDiff == via = "DiffView" \/ (Len(raw) > 0 /\ LooksLikeDiff(raw))

\* React renders the component again, with the same text or another one.
\* What the last call of parseDiff left in its variables is still there:
\* the new call has to set each of them before it reads it.
RenderAgain ==
    /\ pc = "shown"
    /\ Len(returned) + 1 < MaxCalls
    /\ \E r \in CallInputs : raw' = r
    /\ pc' = IF via = "ToolCall" THEN "toolcall" ELSE "start"
    /\ returned' = IF CalledParseDiff
                   THEN Append(returned, [raw |-> raw, files |-> files])
                   ELSE returned
    /\ UNCHANGED <<lines, i, files, header, filePath, hunks, hunkHeader,
                   oldLine, newLine, hunkLines, via, shown, toolVars, serverVars, panelVars>>

NextCalls == Next \/ RenderAgain

SpecCalls == InitCalls /\ [][NextCalls]_vars

(***************************************************************************)
(* The state machine of the tool calls                                     *)
(***************************************************************************)
\* The most tool calls in a row.
MaxToolCalls == 1

\* The paths given to the text editor: a file, a file in a directory, a new
\* file, a new file in a new directory, a path below a file, a directory,
\* the notes directory, a file above the notes directory, a file in the
\* directory beside it.
PathArgs ==
    {<<"a">>, <<"d", "/", "e">>, <<"w">>, <<"v", "/", "w">>, <<"a", "/",
        "x">>, <<"d">>, <<".">>, <<".", ".", "/", ".", ".", "/", "e">>,
        <<".", ".", "/", "n", "x", "/", "s">>}

\* What execSync gives: stdout of a command that succeeded, or the error of
\* one that failed, with its stdout, stderr and message.  The texts are the
\* digits in turn.
ExecResults ==
    LET LongText(n) == [j \in 1..n |-> DigitChar(j % 10)]
    IN
    {[command |-> <<"x">>, ok |-> TRUE, stdout |-> LongText(n),
        stderr |-> <<>>,
      message |-> <<>>] :
        n \in {0, 2, MAX_OUTPUT_CHARS, MAX_OUTPUT_CHARS + 1,
            MAX_OUTPUT_CHARS + 12}}
    \cup
    {[command |-> <<"x">>, ok |-> FALSE, stdout |-> LongText(n[1]),
      stderr |-> LongText(n[2]), message |-> <<"C", "o", "m", "m", "a", "n",
          "d", " ", "f", "a", "i", "l", "e", "d", ":", " ", "x">>] :
        n \in {<<0, 0>>, <<0, 5>>, <<2, MAX_OUTPUT_CHARS - 3>>,
               <<2, MAX_OUTPUT_CHARS - 2>>, <<0, MAX_OUTPUT_CHARS + 1>>}}
    \cup
    {[command |-> <<"x">>, ok |-> FALSE, stdout |-> <<>>, stderr |-> <<>>,
      message |-> <<>>]}

InitTools ==
    /\ build \in {"tools.ts", "part_005"}
    /\ ToolsIdle
    /\ ServerIdle
    /\ PanelIdle
    /\ raw = <<>>
    /\ lines = <<>>
    /\ i = 0
    /\ pc = "idle"
    /\ files = <<>>
    /\ header = <<>>
    /\ filePath = <<>>
    /\ hunks = <<>>
    /\ hunkHeader = <<>>
    /\ oldLine = 1
    /\ newLine = 1
    /\ hunkLines = <<>>
    /\ via = "none"
    /\ shown = Nothing
    /\ returned = <<>>

\* One call of the text editor tool with the arguments a.
EditorStep(a) ==
    LET Done(r) ==
            /\ disk' = r.disk
            /\ reply' = [threw |-> r.threw, text |-> r.text]
            /\ io' = [reads |-> r.reads, writes |-> r.writes]
    IN  /\ ncalls' = ncalls + 1
        /\ call' = a
        /\ diskBefore' = disk
        /\ Done(Execute(build, disk, a))
        /\ UNCHANGED <<build, parserVars, serverVars, panelVars>>

TextEditorView ==
    /\ ncalls < MaxToolCalls
    /\ \E p \in PathArgs, vr \in {<<>>, <<1, 1>>, <<2, -1>>} :
          EditorStep(EditorCall(<<"v", "i", "e", "w">>, p, <<>>, <<>>, <<>>,
              0, vr))

TextEditorCreate ==
    /\ ncalls < MaxToolCalls
    /\ \E p \in PathArgs, ft \in {<<>>, <<"b", "b", "b">>} :
          EditorStep(EditorCall(<<"c", "r", "e", "a", "t", "e">>, p, ft,
              <<>>, <<>>, 0, <<>>))

TextEditorStrReplace ==
    /\ ncalls < MaxToolCalls
    /\ \E p \in PathArgs,
          os \in {<<"a">>, <<"b">>, <<"b", "b">>, <<>>},
          ns \in {<<"X">>, <<"$", "$">>} :
          EditorStep(EditorCall(<<"s", "t", "r", "_", "r", "e", "p", "l",
              "a", "c", "e">>, p, <<>>, os, ns, 0, <<>>))

TextEditorInsert ==
    /\ ncalls < MaxToolCalls
    /\ \E p \in PathArgs,
          il \in {-1, 0, 1, 2, 3, 4},
          ns \in {<<"X">>, <<"X", NL, "Y">>} :
          EditorStep(EditorCall(<<"i", "n", "s", "e", "r", "t">>, p, <<>>,
              <<>>, ns, il, <<>>))

\* undo_edit is a command of the schema of tools.ts; its switch has no case
\* for it.
TextEditorUndoEdit ==
    /\ ncalls < MaxToolCalls
    /\ build = "tools.ts"
    /\ \E p \in PathArgs :
          EditorStep(EditorCall(<<"u", "n", "d", "o", "_", "e", "d", "i",
              "t">>, p, <<>>, <<>>, <<>>, 0, <<>>))

\* One call of the bash tool.  The command leaves the files as they are.
Bash ==
    /\ ncalls < MaxToolCalls
    /\ \E x \in ExecResults :
          /\ call' = BashCall(x)
          /\ reply' = [threw |-> FALSE, text |-> BashExecute(x)]
    /\ ncalls' = ncalls + 1
    /\ diskBefore' = disk
    /\ io' = [reads |-> {}, writes |-> {}]
    /\ UNCHANGED <<build, disk, parserVars, serverVars, panelVars>>

NextTools ==
    \/ TextEditorView
    \/ TextEditorCreate
    \/ TextEditorStrReplace
    \/ TextEditorInsert
    \/ TextEditorUndoEdit
    \/ Bash

ToolSpec == InitTools /\ [][NextTools]_vars

(***************************************************************************)
(* The server: POST /api/chat, GET /api/session, POST /api/new-chat        *)
(***************************************************************************)
\* String.prototype.trim
Trim(s) ==
    LET ink == {k \in 1..Len(s) : s[k] \notin WhiteSpace}
    IN  IF ink = {} THEN <<>>
        ELSE SubSeq(s, SetMin(ink), CHOOSE k \in ink : \A j \in ink : j <= k)

\* The messages of the client.  A message has a role, a content that is a
\* string or is absent, and parts that are an array or are absent; a part
\* has a type and, when it is a text or a reasoning part, a text.
StringContent(t) == [isString |-> TRUE, text |-> t]

NoContent == [isString |-> FALSE, text |-> <<>>]

Parts(ps) == [isArray |-> TRUE, items |-> ps]

NoParts == [isArray |-> FALSE, items |-> <<>>]

Part(type, t) == [type |-> type, text |-> t]

\* extractConversationText: the line of one message, <<>> when it adds none.
MessageLine(msg) ==
    LET role == IF msg.role = "user" THEN <<"U", "s", "e", "r">> ELSE <<"N",
        "u", "c", "l", "e", "u", "s">>
        textParts == SelectSeq(msg.parts.items,
                               LAMBDA p : p.type = "text" /\ Trim(p.text) # <<>>)
        trimmed == [k \in 1..Len(textParts) |-> Trim(textParts[k].text)]
    IN  IF msg.content.isString /\ Trim(msg.content.text) # <<>>
        THEN <<role \o <<":", " ">> \o Trim(msg.content.text)>>
        ELSE IF msg.parts.isArray /\ Len(textParts) > 0
        THEN <<role \o <<":", " ">> \o JoinBy(trimmed, NL)>>
        ELSE <<>>

RECURSIVE ConversationLines(_)
ConversationLines(messages) ==
    IF messages = <<>> THEN <<>>
    ELSE MessageLine(Head(messages)) \o ConversationLines(Tail(messages))

\* extractConversationText(messages): lines.join('\n\n')
ExtractConversationText(messages) ==
    LET JoinLines(ls) ==
            IF ls = <<>> THEN <<>>
            ELSE JoinBy(<<Head(ls)>> \o [k \in 1..(Len(ls) - 1) |->
                                            <<NL>> \o ls[k + 1]], NL)
    IN  JoinLines(ConversationLines(messages))

\* resolve(notesDir, '.nucleus')
NucleusDir(notesDir) == Resolve(notesDir, <<".", "n", "u", "c", "l", "e",
    "u", "s">>)

\* resolve(notesDir, '.nucleus', 'current-conversation.md')
ConvPath(notesDir) ==
    Resolve(NucleusDir(notesDir), <<"c", "u", "r", "r", "e", "n", "t", "-",
        "c", "o", "n", "v", "e", "r", "s", "a", "t", "i", "o", "n", ".", "m",
        "d">>)

\* resolve(nucleusDir, 'conversations')
ArchiveDir(notesDir) == Resolve(NucleusDir(notesDir), <<"c", "o", "n", "v",
    "e", "r", "s", "a", "t", "i", "o", "n", "s">>)

\* What a call that changes the file system gives: did it throw, and the
\* file system it left.
Fs(threw, d) == [threw |-> threw, disk |-> d]

\* writeConversationFile(notesDir, messages)
WriteConversationFile(d, notesDir, messages) ==
    LET Write(text) ==
            LET Made(mk) ==
                    IF mk.threw THEN Fs(TRUE, d)
                    ELSE LET Written(w) ==
                                 IF w.threw THEN Fs(TRUE, mk.disk)
                                 ELSE Fs(FALSE, w.disk)
                         IN  Written(WriteFileSync(mk.disk,
                             ConvPath(notesDir),
                                                   text))
            IN  IF text = <<>> THEN Fs(FALSE, d)
                ELSE Made(MkdirSync(d, NucleusDir(notesDir)))
    IN  Write(ExtractConversationText(messages))

\* getPreviousConversation(notesDir): the trimmed content of the
\* conversation file, null when there is no file, when it cannot be read
\* and when the trimmed content is empty.
GetPreviousConversation(d, notesDir) ==
    LET None == [isNull |-> TRUE, text |-> <<>>]
        Content(read) ==
            IF read.threw \/ Trim(read.text) = <<>> THEN None
            ELSE [isNull |-> FALSE, text |-> Trim(read.text)]
    IN  IF ~ExistsSync(d, ConvPath(notesDir)) THEN None
        ELSE Content(ReadFileSync(d, ConvPath(notesDir)))

\* new Date().toISOString() in the first ten milliseconds of the epoch.
ToISOString(t) == <<"1", "9", "7", "0", "-", "0", "1", "-", "0", "1", "T",
    "0", "0", ":", "0", "0", ":", "0", "0", ".", "0",
    "0">> \o <<DigitChar(t)>> \o <<"Z">>

\* timestamp.replace(/[:.]/g, '-')
ReplaceColonsAndDots(s) ==
    [k \in 1..Len(s) |-> IF s[k] \in {":", "."} THEN "-" ELSE s[k]]

\* resolve(archiveDir, `${timestamp}.md`)
ArchivePath(notesDir, t) ==
    Resolve(ArchiveDir(notesDir),
            ReplaceColonsAndDots(ToISOString(t)) \o <<".", "m", "d">>)

\* The responses of the three routes.
Response(route, status, error) ==
    [route |-> route, status |-> status, error |-> error, ok |-> FALSE,
     hasPreviousConversation |-> FALSE, transcript |-> <<>>,
     threw |-> FALSE]

\* A plausible slip: only !messages is tested.
MessagesRejectedWhenFalsy(messages) ==
    messages.kind \in {"undefined", "null", "empty string"}

\* !messages || !Array.isArray(messages)
MessagesRejected(messages) ==
    \/ messages.kind \in {"undefined", "null", "empty string"}
    \/ messages.kind # "array"

\* handleChat: the response, the file system it leaves, whether streamText
\* was called.  writeConversationFile is not in a try block: when it
\* throws, so does handleChat.  NOTES_DIR, when set, is the notes directory.
HandleChat(e, d, body) ==
    IF ~e.notesDir
    THEN [resp |-> Response("chat", 500, <<"N", "O", "T", "E", "S", "_", "D",
        "I", "R", " ", "e", "n", "v", "i", "r", "o", "n", "m", "e", "n", "t",
        " ", "v", "a", "r", "i", "a", "b", "l", "e", " ", "i", "s", " ", "n",
        "o", "t", " ", "s", "e", "t">>),
          disk |-> d, streamed |-> FALSE]
    ELSE IF ~e.apiKey
    THEN [resp |-> Response("chat", 500, <<"A", "N", "T", "H", "R", "O", "P",
        "I", "C", "_", "A", "P", "I", "_", "K", "E", "Y", " ", "e", "n", "v",
        "i", "r", "o", "n", "m", "e", "n", "t", " ", "v", "a", "r", "i", "a",
        "b", "l", "e", " ", "i", "s", " ", "n", "o", "t", " ", "s", "e",
        "t">>),
          disk |-> d, streamed |-> FALSE]
    ELSE IF ~body.json
    THEN [resp |-> Response("chat", 400, <<"I", "n", "v", "a", "l", "i", "d",
        " ", "J", "S", "O", "N", " ", "b", "o", "d", "y">>),
          disk |-> d, streamed |-> FALSE]
    ELSE IF MessagesRejected(body.messages)
    THEN [resp |-> Response("chat", 400, <<"m", "e", "s", "s", "a", "g", "e",
        "s", " ", "a", "r", "r", "a", "y", " ", "i", "s", " ", "r", "e", "q",
        "u", "i", "r", "e", "d">>),
          disk |-> d, streamed |-> FALSE]
    ELSE LET Written(w) ==
                 IF w.threw
                 THEN [resp |-> [Response("chat", 0, <<>>) EXCEPT
                                    !.threw = TRUE],
                       disk |-> w.disk, streamed |-> FALSE]
                 ELSE [resp |-> Response("chat", 200, <<>>), disk |-> w.disk,
                       streamed |-> TRUE]
         IN  Written(WriteConversationFile(d, NotesDir, body.messages.items))

\* app.get('/api/session')
SessionHandler(e, d) ==
    LET Answer(transcript) ==
            [Response("session", 200, <<>>) EXCEPT
                !.hasPreviousConversation = ~transcript.isNull,
                !.transcript = transcript.text]
    IN  IF ~e.notesDir THEN Response("session", 200, <<>>)
        ELSE Answer(GetPreviousConversation(d, NotesDir))

\* A plausible slip: the conversation is cleared but not archived.
NewChatNoArchive(e, d, t) ==
    LET Ok(d2) == [resp |-> [Response("new-chat", 200,
        <<>>) EXCEPT !.ok = TRUE],
                   disk |-> d2]
        Failed(d2) ==
            [resp |-> Response("new-chat", 500, <<"F", "a", "i", "l", "e",
                "d", " ", "t", "o", " ", "c", "l", "e", "a", "r", " ", "c",
                "o", "n", "v", "e", "r", "s", "a", "t", "i", "o", "n">>),
             disk |-> d2]
        Clear(d2) ==
            LET Made(mk) ==
                    IF mk.threw THEN Failed(d2)
                    ELSE LET Written(w) ==
                                 IF w.threw THEN Failed(mk.disk) ELSE Ok(w.disk)
                         IN  Written(WriteFileSync(mk.disk,
                             ConvPath(NotesDir),
                                                   <<>>))
            IN  Made(MkdirSync(d2, NucleusDir(NotesDir)))
    IN  IF ~e.notesDir THEN Ok(d) ELSE Clear(d)

\* app.post('/api/new-chat') at the time t: the response and the file
\* system it leaves.
NewChatHandler(e, d, t) ==
    LET Ok(d2) == [resp |-> [Response("new-chat", 200,
        <<>>) EXCEPT !.ok = TRUE],
                   disk |-> d2]
        Failed(d2) ==
            [resp |-> Response("new-chat", 500, <<"F", "a", "i", "l", "e",
                "d", " ", "t", "o", " ", "c", "l", "e", "a", "r", " ", "c",
                "o", "n", "v", "e", "r", "s", "a", "t", "i", "o", "n">>),
             disk |-> d2]
        Clear(d2) ==
            LET Made(mk) ==
                    IF mk.threw THEN Failed(d2)
                    ELSE LET Written(w) ==
                                 IF w.threw THEN Failed(mk.disk) ELSE Ok(w.disk)
                         IN  Written(WriteFileSync(mk.disk,
                             ConvPath(NotesDir),
                                                   <<>>))
            IN  Made(MkdirSync(d2, NucleusDir(NotesDir)))
        Archive(prev) ==
            LET Made(mk) ==
                    IF mk.threw THEN Failed(d)
                    ELSE LET Written(w) ==
                                 IF w.threw THEN Failed(mk.disk)
                                 ELSE Clear(w.disk)
                         IN  Written(WriteFileSync(mk.disk,
                                                   ArchivePath(NotesDir, t),
                                                   prev.text))
            IN  IF prev.isNull THEN Clear(d)
                ELSE Made(MkdirSync(d, ArchiveDir(NotesDir)))
    IN  IF ~e.notesDir THEN Ok(d)
        ELSE Archive(GetPreviousConversation(d, NotesDir))

\* The most requests in a row, and the last millisecond of the clock.
MaxRequests == 4

MaxClock == 2

\* The messages sent: a text with blanks around it, an answer in parts with
\* a reasoning part and a blank text part, a blank text, a message in two
\* text parts.
UserHi == [role |-> "user", content |-> StringContent(<<" ", "h", "i",
    " ">>), parts |-> NoParts]

NucleusOk ==
    [role |-> "assistant", content |-> NoContent,
     parts |-> Parts(<<Part("text", <<"o", "k", " ">>), Part("reasoning",
         <<"r">>),
                       Part("text", <<" ">>), Part("step-start", <<>>)>>)]

UserBlank == [role |-> "user", content |-> StringContent(<<" ", " ">>),
    parts |-> NoParts]

UserParts ==
    [role |-> "user", content |-> StringContent(<<>>),
     parts |-> Parts(<<Part("text", <<"a">>), Part("text", <<" ", "b">>)>>)]

\* The bodies of the requests: no JSON, JSON without `messages`, with
\* messages null, '', a string, an object, and with arrays of messages.
RequestBodies ==
    {NoBody}
    \cup {[json |-> TRUE, messages |-> [kind |-> k, items |-> <<>>]] :
            k \in {"undefined", "null", "empty string", "string", "object"}}
    \cup {[json |-> TRUE, messages |-> [kind |-> "array", items |-> ms]] :
            ms \in {<<>>, <<UserHi>>, <<UserBlank>>, <<UserHi, NucleusOk>>,
                    <<UserParts>>}}

\* The notes directory when the server starts: without '.nucleus', or with
\* a file of that name in the way.
ServerDisks ==
    LET Bare == [files |-> <<>>,
                 dirs |-> {<<"/">>, <<"/", "r">>, NotesDir}]
    IN  {Bare, [Bare EXCEPT !.files = (NucleusDir(NotesDir) :> <<"x">>)]}

InitServer ==
    /\ env \in [notesDir : BOOLEAN, apiKey : BOOLEAN]
    /\ clock = 0
    /\ req = [route |-> "none", body |-> NoBody]
    /\ resp = Response("none", 0, <<>>)
    /\ streams = 0
    /\ nreqs = 0
    /\ disk \in ServerDisks
    /\ diskBefore = disk
    /\ build = "tools.ts"
    /\ call = NoCall
    /\ reply = [threw |-> FALSE, text |-> <<>>]
    /\ io = [reads |-> {}, writes |-> {}]
    /\ ncalls = 0
    /\ PanelIdle
    /\ raw = <<>>
    /\ lines = <<>>
    /\ i = 0
    /\ pc = "idle"
    /\ files = <<>>
    /\ header = <<>>
    /\ filePath = <<>>
    /\ hunks = <<>>
    /\ hunkHeader = <<>>
    /\ oldLine = 1
    /\ newLine = 1
    /\ hunkLines = <<>>
    /\ via = "none"
    /\ shown = Nothing
    /\ returned = <<>>

\* What every request leaves alone.
ServerFrame ==
    UNCHANGED <<env, build, call, reply, io, ncalls, parserVars, panelVars>>

\* POST /api/chat
PostChat ==
    /\ nreqs < MaxRequests
    /\ \E body \in RequestBodies :
          LET Handled(h) ==
                  /\ req' = [route |-> "chat", body |-> body]
                  /\ resp' = h.resp
                  /\ disk' = h.disk
                  /\ streams' = IF h.streamed THEN streams + 1 ELSE streams
          IN  Handled(HandleChat(env, disk, body))
    /\ diskBefore' = disk
    /\ nreqs' = nreqs + 1
    /\ UNCHANGED clock
    /\ ServerFrame

\* GET /api/session
GetSession ==
    /\ nreqs < MaxRequests
    /\ req' = [route |-> "session", body |-> NoBody]
    /\ resp' = SessionHandler(env, disk)
    /\ diskBefore' = disk
    /\ nreqs' = nreqs + 1
    /\ UNCHANGED <<disk, clock, streams>>
    /\ ServerFrame

\* POST /api/new-chat
PostNewChat ==
    /\ nreqs < MaxRequests
    /\ req' = [route |-> "new-chat", body |-> NoBody]
    /\ LET Handled(h) == resp' = h.resp /\ disk' = h.disk
       IN  Handled(NewChatHandler(env, disk, clock))
    /\ diskBefore' = disk
    /\ nreqs' = nreqs + 1
    /\ UNCHANGED <<clock, streams>>
    /\ ServerFrame

\* A millisecond passes.
ClockTick ==
    /\ clock < MaxClock
    /\ clock' = clock + 1
    /\ UNCHANGED <<req, resp, streams, nreqs, disk, diskBefore>>
    /\ ServerFrame

NextServer ==
    \/ PostChat
    \/ GetSession
    \/ PostNewChat
    \/ ClockTick

ServerSpec == InitServer /\ [][NextServer]_vars

(***************************************************************************)
(* DiffPanel: polling /api/diff                                            *)
(***************************************************************************)
\* The longest run of the panel, in seconds, and the most requests sent.
MaxTime == 4

MaxFetches == 3

\* setInterval(fetchDiff, 2000): the period in seconds.
PollSeconds == 2

\* json.diff of the responses of GET /api/diff: no changes, one changed
\* file, another changed file.
PanelDiffs ==
    {<<>>, <<"d", "i", "f", "f", " ", "-", "-", "g", "i", "t", " ", "a", "/",
        "x", " ", "b", "/", "x", NL, "@", "@", " ", "-", "1", " ", "+", "1",
        " ", "@", "@", NL, "-", "a", NL, "+", "b">>,
     <<"d", "i", "f", "f", " ", "-", "-", "g", "i", "t", " ", "a", "/", "y",
         " ", "b", "/", "y", NL, "@", "@", " ", "-", "1", " ", "+", "1", " ",
         "@", "@", NL, "-", "c", NL, "+", "d">>}

\* A call of fetchDiff: by the effect or by the interval, at what time,
\* with what value of isStreaming; settled is false while it awaits
\* fetch('/api/diff'), then resOk and jsonDiff are what came back.
FetchDiff(cause, t, s) ==
    [cause |-> cause, at |-> t, streaming |-> s, settled |-> FALSE,
     resOk |-> FALSE, jsonDiff |-> <<>>]

\* setInterval(fetchDiff, 2000) at time t.
SetInterval(t) == [set |-> TRUE, due |-> t + PollSeconds]

\* A plausible slip: the effect returns no cleanup, the interval stays.
ClearIntervalForgotten(tm) == tm

\* clearInterval(interval)
ClearInterval(tm) == [set |-> FALSE, due |-> 0]

\* The effect of [isStreaming, fetchDiff], run with isStreaming = s after
\* the cleanup of its last run, if that run returned one: fetchDiff(), and
\* the interval when s is true.
UseEffect(s) ==
    /\ Len(fetches) < MaxFetches
    /\ fetches' = Append(fetches, FetchDiff("effect", now, s))
    /\ LET cleaned == IF timer.set THEN ClearInterval(timer) ELSE timer
       IN  timer' = IF s THEN SetInterval(now) ELSE cleaned

\* The first render and its effect.
Mount ==
    /\ ~mounted
    /\ mounted' = TRUE
    /\ \E s \in BOOLEAN : isStreaming' = s /\ UseEffect(s)
    /\ UNCHANGED <<now, data, prevDiffRef, expanded>>

\* Chat renders the panel with another value of isStreaming.
SetStreaming ==
    /\ mounted
    /\ isStreaming' = ~isStreaming
    /\ UseEffect(~isStreaming)
    /\ UNCHANGED <<mounted, now, data, prevDiffRef, expanded>>

\* The interval fires: fetchDiff(), and it is due again a period later.
IntervalFires ==
    /\ timer.set
    /\ now = timer.due
    /\ Len(fetches) < MaxFetches
    /\ fetches' = Append(fetches, FetchDiff("interval", now, isStreaming))
    /\ timer' = [timer EXCEPT !.due = now + PollSeconds]
    /\ UNCHANGED <<mounted, isStreaming, now, data, prevDiffRef, expanded>>

\* A second passes; an interval that is due fires first.
Tick ==
    /\ mounted
    /\ now < MaxTime
    /\ ~(timer.set /\ now = timer.due)
    /\ now' = now + 1
    /\ UNCHANGED <<mounted, isStreaming, timer, fetches, data, prevDiffRef,
                   expanded>>

\* The rest of fetchDiff after `await fetch`, for the k-th call, whichever
\* call that is: with a response that is ok and a json.diff other than
\* prevDiffRef.current, the ref and the data are set and a diff that is not
\* blank expands the panel; a response that is not ok, or a fetch that
\* throws, changes nothing.
Settle(k, ok, diff) ==
    /\ ~fetches[k].settled
    /\ fetches' = [fetches EXCEPT ![k] = [@ EXCEPT !.settled = TRUE,
                                                    !.resOk = ok,
                                                    !.jsonDiff = diff]]
    /\ IF ok /\ diff # prevDiffRef
       THEN /\ prevDiffRef' = diff
            /\ data' = [isNull |-> FALSE, diff |-> diff]
            /\ expanded' = IF Trim(diff) # <<>> THEN TRUE ELSE expanded
       ELSE UNCHANGED <<prevDiffRef, data, expanded>>
    /\ UNCHANGED <<mounted, isStreaming, timer, now>>

FetchSettles ==
    \E k \in 1..Len(fetches) :
        \/ \E diff \in PanelDiffs : Settle(k, TRUE, diff)
        \/ Settle(k, FALSE, <<>>)

\* What the panel renders of the diff: nothing for no data or a blank diff.
Rendered == IF data.isNull \/ Trim(data.diff) = <<>> THEN <<>> ELSE data.diff

\* A click on the header of the panel.
ToggleExpanded ==
    /\ mounted
    /\ Rendered # <<>>
    /\ expanded' = ~expanded
    /\ UNCHANGED <<mounted, isStreaming, timer, now, fetches, data,
                   prevDiffRef>>

InitPanel ==
    /\ PanelIdle
    /\ ServerIdle
    /\ ToolsIdle
    /\ build = "tools.ts"
    /\ raw = <<>>
    /\ lines = <<>>
    /\ i = 0
    /\ pc = "idle"
    /\ files = <<>>
    /\ header = <<>>
    /\ filePath = <<>>
    /\ hunks = <<>>
    /\ hunkHeader = <<>>
    /\ oldLine = 1
    /\ newLine = 1
    /\ hunkLines = <<>>
    /\ via = "none"
    /\ shown = Nothing
    /\ returned = <<>>

NextPanel ==
    \/ Mount /\ UNCHANGED <<parserVars, toolVars, serverVars>>
    \/ SetStreaming /\ UNCHANGED <<parserVars, toolVars, serverVars>>
    \/ IntervalFires /\ UNCHANGED <<parserVars, toolVars, serverVars>>
    \/ Tick /\ UNCHANGED <<parserVars, toolVars, serverVars>>
    \/ FetchSettles /\ UNCHANGED <<parserVars, toolVars, serverVars>>
    \/ ToggleExpanded /\ UNCHANGED <<parserVars, toolVars, serverVars>>

PanelSpec == InitPanel /\ [][NextPanel]_vars

(***************************************************************************)
(* Reading a result and an input                                           *)
(***************************************************************************)
\* The hunks of a result, as <<index of the file, index of the hunk>>.
HunkIds(fs) ==
    {fh \in (1..Len(fs)) \X (1..20) : fh[2] <= Len(fs[fh[1]].hunks)}

HunkOf(fs, fh) == fs[fh[1]].hunks[fh[2]]

\* The DiffLines of a hunk that have one of the types of T, in order.
OfTypes(ls, T) == SelectSeq(ls, LAMBDA d : d.type \in T)

\* The field "<start>[,<length>]" that follows `lead` in a hunk header
\* "@@ -a[,b] +c[,d] @@": <<start, length>>, the length 1 when it is left
\* out; <<1, -1>> (the default start, no declared length) when the header
\* does not have this shape.
RangeField(h, lead) ==
    LET ks == {k \in 1..Len(h) : OccursAt(h, lead, k)}
        k == SetMin(ks)
        a1 == k + Len(lead)
        a2 == DigitsEnd(h, a1)
        b2 == DigitsEnd(h, a2 + 1)
    IN  IF ~StartsWith(h, AtAtMinus) \/ ks = {} \/ a2 = a1 THEN <<1, -1>>
        ELSE IF a2 <= Len(h) /\ h[a2] = "," /\ b2 > a2 + 1
        THEN <<ParseInt(SubSeq(h, a1, a2 - 1)), ParseInt(SubSeq(h, a2 + 1, b2 - 1))>>
        ELSE <<ParseInt(SubSeq(h, a1, a2 - 1)), 1>>

DeclaredOld(h) == RangeField(h, AtAtMinus)

DeclaredNew(h) == RangeField(h, SpPlus)

\* The lines of the input that start with 'diff --git', by position.
HeaderPositions(ls) == {k \in 1..Len(ls) : StartsWith(ls[k], DiffGit)}

(***************************************************************************)
(* C1                                                                      *)
(***************************************************************************)
NoteMdHunkLines ==
    <<[type |-> "context", content |-> <<"#", " ", "H", "e", "l", "l", "o">>,
       oldLineNo |-> 1, newLineNo |-> 1],
      [type |-> "remove", content |-> <<"o", "l", "d", " ", "l", "i", "n", "e">>,
       oldLineNo |-> 2, newLineNo |-> Null],
      [type |-> "add", content |-> <<"n", "e", "w", " ", "l", "i", "n", "e">>,
       oldLineNo |-> Null, newLineNo |-> 2],
      [type |-> "add",
       content |-> <<"a", "d", "d", "e", "d", " ", "l", "i", "n", "e">>,
       oldLineNo |-> Null, newLineNo |-> 3]>>

\* C1: parseDiff of the note.md scenario returns exactly one DiffFile, with
\* filePath 'note.md' and exactly one DiffHunk, whose lines are exactly
\* context('# Hello', 1, 1), remove('old line', 2, null),
\* add('new line', null, 2), add('added line', null, 3).
C1_NoteMdScenario ==
    (pc = "done" /\ raw = NoteMdInput) =>
        /\ Len(files) = 1
        /\ files[1].filePath = <<"n", "o", "t", "e", ".", "m", "d">>
        /\ Len(files[1].hunks) = 1
        /\ files[1].hunks[1].lines = NoteMdHunkLines

C1_Witness ==
    /\ pc = "done"
    /\ raw = NoteMdInput
    /\ Len(files) = 1
    /\ Len(files[1].hunks[1].lines) = 4

(***************************************************************************)
(* C2                                                                      *)
(***************************************************************************)
\* C2: in every hunk parseDiff produces from the text GET /api/diff returns
\* (git's output, newline-terminated, with the blocks of untracked files
\* appended), the remove and context DiffLines are as many as the old
\* length the '@@' header declares, and the add and context DiffLines as
\* many as the declared new length.
C2_HunkLengths ==
    (pc = "done" /\ raw \in ApiOutputs) =>
        \A fh \in HunkIds(files) :
            LET h == HunkOf(files, fh)
            IN  /\ Len(OfTypes(h.lines, {"remove", "context"}))
                     = DeclaredOld(h.header)[2]
                /\ Len(OfTypes(h.lines, {"add", "context"}))
                     = DeclaredNew(h.header)[2]

(***************************************************************************)
(* C3                                                                      *)
(***************************************************************************)
\* What GET /api/diff returns when nothing tracked has changed and one
\* file is untracked.
OneUntracked == {ApiDiff(<<>>, u) : u \in {v \in UntrackedLists : Len(v) = 1}}

\* C3: the block fabricated for an untracked file F, whatever its content,
\* parses to one DiffFile with filePath F in which every DiffLine has type
\* 'add' and oldLineNo null.
C3_UntrackedAllAdd ==
    (pc = "done" /\ raw \in OneUntracked) =>
        /\ Len(files) = 1
        /\ files[1].filePath = UntrackedName(1)
        /\ \A fh \in HunkIds(files) :
              \A k \in 1..Len(HunkOf(files, fh).lines) :
                  /\ HunkOf(files, fh).lines[k].type = "add"
                  /\ HunkOf(files, fh).lines[k].oldLineNo = Null

(***************************************************************************)
(* C4                                                                      *)
(***************************************************************************)
\* The paths of the '+++ b/<path>' lines among the header lines of a diff
\* (the lines before its first hunk).
PlusBPaths(ls) ==
    {Slice(ls[k], Len(PlusB)) : k \in {j \in 1..Len(ls) :
        /\ StartsWith(ls[j], PlusB)
        /\ Len(ls[j]) > Len(PlusB)
        /\ \A m \in 1..j : ~StartsWith(ls[m], AtAt)}}

\* C4: for every valid unified diff of a single file parseDiff returns
\* exactly one DiffFile, and its filePath is the path of the '+++ b/<path>'
\* line when the diff has one.
C4_SingleFile ==
    (pc = "done" /\ raw \in SingleFileDiffs) =>
        /\ Len(files) = 1
        /\ \A q \in PlusBPaths(lines) : files[1].filePath = q

(***************************************************************************)
(* C5                                                                      *)
(***************************************************************************)
\* The last line of the file block whose 'diff --git' line is line k.
BlockEnd(ls, k) ==
    LET later == {j \in HeaderPositions(ls) : j > k}
    IN  IF later = {} THEN Len(ls) ELSE SetMin(later) - 1

\* The header has the shape 'diff --git a/<p1> b/<p2>', both paths non-empty.
HeaderHasPaths(h) ==
    /\ StartsWith(h, DiffGitA)
    /\ \E j \in (Len(DiffGitA) + 2)..Len(h) :
          OccursAt(h, SpB, j) /\ j + Len(SpB) <= Len(h)

\* The block has a '+++ b/<path>' line where the path lines are expected:
\* at the first '@@', '--- ', '+++ ' or 'Binary ' line of the block, or
\* right after it when that line is the '--- ' line.
BlockHasPlusB(ls, k) ==
    LET e == BlockEnd(ls, k)
        stops == {j \in (k + 1)..e :
                    \/ StartsWith(ls[j], AtAt)
                    \/ StartsWith(ls[j], MinusPath)
                    \/ StartsWith(ls[j], PlusPath)
                    \/ StartsWith(ls[j], BinaryMark)}
        m == SetMin(stops)
        p == IF StartsWith(ls[m], MinusPath) THEN m + 1 ELSE m
    IN  /\ stops # {}
        /\ p <= e
        /\ StartsWith(ls[p], PlusB)
        /\ Len(ls[p]) > Len(PlusB)

\* The path of the block can be resolved.
Resolvable(ls, k) == HeaderHasPaths(ls[k]) \/ BlockHasPlusB(ls, k)

\* The 'diff --git' lines of the resolvable blocks, in input order.
ResolvableHeaders(ls) ==
    LET idx == SelectSeq([j \in 1..Len(ls) |-> j],
                         LAMBDA j : j \in HeaderPositions(ls) /\ Resolvable(ls, j))
    IN  [n \in 1..Len(idx) |-> ls[idx[n]]]

\* C5: for an input with N lines starting with 'diff --git' parseDiff
\* returns N minus the number of blocks with an unresolvable path, and the
\* DiffFiles are exactly the resolvable blocks, one each, in order: none
\* is merged with another, split or dropped for another reason.
C5_OneFilePerBlock ==
    pc = "done" =>
        LET ls == Split(raw)
        IN  /\ Len(files) = Cardinality(HeaderPositions(ls))
                 - Cardinality({k \in HeaderPositions(ls) : ~Resolvable(ls, k)})
            /\ [n \in 1..Len(files) |-> files[n].header] = ResolvableHeaders(ls)

C5_Witness ==
    /\ pc = "done"
    /\ Cardinality(HeaderPositions(lines)) = 3
    /\ Len(files) = 2

(***************************************************************************)
(* C6                                                                      *)
(***************************************************************************)
\* The start values of a hunk header, read as the pattern
\* '@@ -<a>[,<b>] +<c>[,<d>] @@' says, wherever in the header it stands.
\* s[from..to] is a non-empty run of decimal digits.
IsNumber(s, from, to) ==
    /\ from <= to
    /\ to <= Len(s)
    /\ \A j \in from..to : s[j] \in Digits

\* The positions after a number that starts at `from`.
NumberEnds(s, from) == {e \in (from + 1)..(Len(s) + 1) : IsNumber(s, from, e - 1)}

\* The positions after an optional ',<number>' that starts at e.
OptLengthEnds(s, e) ==
    {e} \cup (IF e <= Len(s) /\ s[e] = "," THEN NumberEnds(s, e + 1) ELSE {})

\* The ways to read '@@ -<a>[,<b>] +<c>[,<d>] @@' in h from position k on:
\* <<a, c>> for every choice of the ends of <a>, [,<b>], <c> and [,<d>].
RangeReadings(h, k) ==
    LET a1 == k + Len(AtAtMinus)
    IN  IF ~OccursAt(h, AtAtMinus, k) THEN {}
        ELSE UNION {UNION {UNION {
                {<<ParseInt(SubSeq(h, a1, e1 - 1)),
                   ParseInt(SubSeq(h, e2 + Len(SpPlus), e3 - 1))>> :
                    e4 \in {e \in OptLengthEnds(h, e3) : OccursAt(h, SpAtAt, e)}} :
                e3 \in NumberEnds(h, e2 + Len(SpPlus))} :
                e2 \in {e \in OptLengthEnds(h, e1) : OccursAt(h, SpPlus, e)}} :
                e1 \in NumberEnds(h, a1)}

\* The start values a hunk header stands for: <<a, c>> of the first place
\* where the header reads '@@ -<a>[,<b>] +<c>[,<d>] @@', <<1, 1>> when there
\* is none.
ExpectedStarts(h) ==
    LET ks == {k \in 1..Len(h) : RangeReadings(h, k) # {}}
    IN  IF ks = {} THEN {<<1, 1>>} ELSE RangeReadings(h, SetMin(ks))

\* The line numbers of a sequence of DiffLines count up from start.
CountsFrom(ds, start, field) ==
    \A k \in 1..Len(ds) :
        (IF field = "old" THEN ds[k].oldLineNo ELSE ds[k].newLineNo)
            = start + k - 1

\* C6: in every hunk returned, the k-th remove/context line has
\* oldLineNo = oldStart + k - 1 and the k-th add/context line has
\* newLineNo = newStart + k - 1, the starts being those of the hunk header
\* (1 and 1 for a header without them).
C6_LineNumbers ==
    pc = "done" =>
        \A fh \in HunkIds(files) :
            LET h == HunkOf(files, fh)
            IN  \A starts \in ExpectedStarts(h.header) :
                   /\ CountsFrom(OfTypes(h.lines, {"remove", "context"}),
                                 starts[1], "old")
                   /\ CountsFrom(OfTypes(h.lines, {"add", "context"}),
                                 starts[2], "new")

C6_Witness ==
    /\ pc = "done"
    /\ \E fh \in HunkIds(files) :
          LET h == HunkOf(files, fh)
          IN  /\ DeclaredOld(h.header)[1] = 12
              /\ Len(h.lines) >= 3
              /\ h.lines[1].type = "add"
              /\ h.lines[Len(h.lines) - 1].type = "remove"
              /\ h.lines[Len(h.lines) - 1].oldLineNo = 12

(***************************************************************************)
(* C7                                                                      *)
(***************************************************************************)
IsMarkerLine(l) == StartsWith(l, NoNewlineMark)

\* Line j of the input is in a hunk body: a '@@' line of a file block comes
\* before it with no 'diff --git' line from there to line j.
InHunkBody(ls, j) ==
    \E k \in 1..(j - 1) :
        /\ StartsWith(ls[k], AtAt)
        /\ \E h \in 1..(k - 1) : StartsWith(ls[h], DiffGit)
        /\ \A m \in (k + 1)..j : ~StartsWith(ls[m], DiffGit)

\* The input with the marker lines of its hunk bodies deleted.
WithoutMarkerLines(r) ==
    LET ls == Split(r)
        keep == SelectSeq([j \in 1..Len(ls) |-> j],
                          LAMBDA j : ~(IsMarkerLine(ls[j]) /\ InHunkBody(ls, j)))
    IN  Join([n \in 1..Len(keep) |-> ls[keep[n]]])

\* A result with its 'no-newline' DiffLines deleted.
WithoutNoNewline(fs) ==
    [f \in 1..Len(fs) |->
        [fs[f] EXCEPT !.hunks =
            [h \in 1..Len(fs[f].hunks) |->
                [fs[f].hunks[h] EXCEPT !.lines =
                    SelectSeq(fs[f].hunks[h].lines,
                              LAMBDA d : d.type # "no-newline")]]]]

\* C7: a '\ No newline at end of file' line of a hunk body becomes a
\* DiffLine of type 'no-newline' with the raw line as content and both
\* line numbers null, and every other line of the result has the type and
\* the line numbers it has when the marker lines of the hunk bodies are
\* deleted from the input.
C7_NoNewlineMarker ==
    pc = "done" =>
        /\ \A fh \in HunkIds(files) :
              \A k \in 1..Len(HunkOf(files, fh).lines) :
                  LET d == HunkOf(files, fh).lines[k]
                  IN  (d.type = "no-newline" \/ IsMarkerLine(d.content)) =>
                          /\ d.type = "no-newline"
                          /\ IsMarkerLine(d.content)
                          /\ \E j \in 1..Len(lines) : lines[j] = d.content
                          /\ d.oldLineNo = Null
                          /\ d.newLineNo = Null
        /\ WithoutNoNewline(files) = ParseDiff(WithoutMarkerLines(raw))

C7_Witness ==
    /\ pc = "done"
    /\ \E fh \in HunkIds(files) :
          LET ls == HunkOf(files, fh).lines
          IN  /\ Len(ls) >= 3
              /\ ls[1].type = "remove"
              /\ ls[2].type = "no-newline"
              /\ ls[3].type = "add"
              /\ ls[3].newLineNo = 12

(***************************************************************************)
(* C8                                                                      *)
(***************************************************************************)
\* C8: parseDiff returns the empty collection for the empty string and for
\* every input without a line that starts with 'diff --git'.
C8_NoHeaderNoFiles ==
    (pc = "done" /\ HeaderPositions(Split(raw)) = {}) => files = <<>>

C8_Witness ==
    /\ pc = "done"
    /\ HeaderPositions(Split(raw)) = {}
    /\ \E k \in 1..Len(lines) : StartsWithAnywhere(lines[k], DiffGitA)
    /\ \E k \in 1..Len(lines) : StartsWith(lines[k], AtAt)
    /\ files = <<>>

(***************************************************************************)
(* C9                                                                      *)
(***************************************************************************)
\* C9: every DiffFile of the result has a non-empty filePath, resolved
\* from its 'diff --git a/<p1> b/<p2>' header or from a '+++ b/<path>'
\* line; a block with neither is dropped with all its hunks.
C9_NonEmptyPath ==
    /\ [](\A n \in 1..Len(files) :
             /\ files[n].filePath # <<>>
             /\ \/ files[n].filePath = HeaderMatch(files[n].header)
                \/ \E k \in 1..Len(lines) :
                      lines[k] = PlusB \o files[n].filePath)
    /\ [][(pc = "hunks" /\ pc' = "outer") =>
             IF filePath = <<>>
             THEN files' = files
             ELSE files' = Append(files, [header |-> header,
                                          filePath |-> filePath,
                                          hunks |-> hunks])]_vars

C9_Witness ==
    /\ pc = "outer"
    /\ filePath = <<>>
    /\ Len(hunks) = 1
    /\ Len(hunks[1].lines) = 1
    /\ files = <<>>

(***************************************************************************)
(* C10                                                                     *)
(***************************************************************************)
\* C10: parseDiff produces no error on any input: it never throws, and it
\* goes on until it returns its collection.
C10_NeverThrows ==
    /\ pc # "threw"
    /\ pc \notin {"toolcall", "done", "shown"} => CanStep(Cur)

C10_Witness ==
    /\ pc = "done"
    /\ \E k \in HeaderPositions(lines) : ~HeaderHasPaths(lines[k])
    /\ \E k \in 1..Len(lines) : StartsWith(lines[k], MinusPath)
    /\ \A k \in 1..Len(lines) : ~StartsWith(lines[k], PlusPath)

(***************************************************************************)
(* C12                                                                     *)
(***************************************************************************)
\* The positions of the resolvable 'diff --git' lines, in input order.
ResolvablePositions(ls) ==
    SelectSeq([j \in 1..Len(ls) |-> j],
              LAMBDA j : j \in HeaderPositions(ls) /\ Resolvable(ls, j))

\* The line of the block of line k where a '+++ ' line is looked for: the
\* first '@@', '--- ', '+++ ' or 'Binary ' line after the header, or the
\* line after it when that one is the '--- ' line; 0 when the block ends
\* before.
PlusLinePos(ls, k) ==
    LET e == BlockEnd(ls, k)
        stops == {j \in (k + 1)..e :
                    \/ StartsWith(ls[j], AtAt)
                    \/ StartsWith(ls[j], MinusPath)
                    \/ StartsWith(ls[j], PlusPath)
                    \/ StartsWith(ls[j], BinaryMark)}
        m == SetMin(stops)
        p == IF StartsWith(ls[m], MinusPath) THEN m + 1 ELSE m
    IN  IF stops # {} /\ p <= e THEN p ELSE 0

\* The text after 'diff --git a/<p1> b/' in a header, <p1> the shortest
\* non-empty text before a ' b/' that something follows.
SecondPath(h) ==
    LET js == {j \in (Len(DiffGitA) + 2)..Len(h) :
                  OccursAt(h, SpB, j) /\ j + Len(SpB) <= Len(h)}
    IN  IF ~StartsWith(h, DiffGitA) \/ js = {} THEN <<>>
        ELSE SubSeq(h, SetMin(js) + Len(SpB), Len(h))

\* The path the block of line k is expected to get.
ExpectedPath(ls, k) ==
    LET p == PlusLinePos(ls, k)
    IN  IF p # 0 /\ StartsWith(ls[p], PlusB) /\ Len(ls[p]) > Len(PlusB)
        THEN SubSeq(ls[p], Len(PlusB) + 1, Len(ls[p]))
        ELSE SecondPath(ls[k])

\* C12: the filePath of a DiffFile is the <path> of the '+++ b/<path>' line
\* that directly follows the metadata and '--- ' lines of its block, even
\* when the header names another second path; when that line is absent or
\* is not a '+++ b/' line (as '+++ /dev/null'), it is the second path of
\* the 'diff --git a/<p1> b/<p2>' header.
C12_PathPrecedence ==
    pc = "done" =>
        LET ls == Split(raw)
            ks == ResolvablePositions(ls)
        IN  /\ Len(files) = Len(ks)
            /\ \A n \in 1..Len(ks) : files[n].filePath = ExpectedPath(ls, ks[n])

\* A rename block: the header names b/y, the '+++ ' line b/z.
C12_Witness ==
    /\ pc = "done"
    /\ Len(files) = 1
    /\ HeaderMatch(files[1].header) = <<"y">>
    /\ \E k \in 2..Len(lines) : PlusMatch(lines[k]) = <<"z">>
    /\ files[1].filePath = <<"z">>

(***************************************************************************)
(* C13                                                                     *)
(***************************************************************************)
\* The block of line k has no line that starts with '@@'.
NoHunkBlock(ls, k) ==
    \A j \in (k + 1)..BlockEnd(ls, k) : ~StartsWith(ls[j], AtAt)

\* C13: a file block without any '@@' line (a pure rename, a mode change, a
\* binary diff) whose path is resolvable is in the result as a DiffFile
\* with no hunks, and the block after it is still parsed as a DiffFile of
\* its own.
C13_NoHunkBlocks ==
    pc = "done" =>
        LET ls == Split(raw)
            ks == ResolvablePositions(ls)
        IN  /\ Len(files) = Len(ks)
            /\ \A n \in 1..Len(ks) :
                  /\ files[n].header = ls[ks[n]]
                  /\ NoHunkBlock(ls, ks[n]) => files[n].hunks = <<>>
                  /\ ~NoHunkBlock(ls, ks[n]) => files[n].hunks # <<>>

\* A binary block without hunks, then another block: two DiffFiles.
C13_Witness ==
    /\ pc = "done"
    /\ Len(lines) = 3
    /\ StartsWith(lines[2], BinaryMark)
    /\ StartsWith(lines[3], DiffGit)
    /\ Len(files) = 2
    /\ files[1].hunks = <<>>
    /\ files[2].hunks = <<>>

(***************************************************************************)
(* C14                                                                     *)
(***************************************************************************)
\* The lines of the block of line k that start with '@@', in input order.
HunkHeaderLines(ls, k) ==
    SelectSeq(SubSeq(ls, k + 1, BlockEnd(ls, k)), LAMBDA l : StartsWith(l, AtAt))

\* C14: when a hunk header matches '@@ -<a>[,<b>] +<c>[,<d>] @@' the
\* counters start at a and c, with or without the ',<length>' parts; for
\* every other line that starts with '@@' a hunk is produced all the same
\* and both counters start at 1.
C14_HunkStarts ==
    /\ (pc = "body" /\ hunkLines = <<>>) =>
          ExpectedStarts(hunkHeader) = {<<oldLine, newLine>>}
    /\ pc = "done" =>
          LET ls == Split(raw)
              ks == ResolvablePositions(ls)
          IN  \A n \in 1..Len(files) :
                 [m \in 1..Len(files[n].hunks) |-> files[n].hunks[m].header]
                    = HunkHeaderLines(ls, ks[n])

\* A hunk for '@@ -3,2 +5 @@' (a length on one side only) and a hunk for
\* the header '@@ x', which does not match.
C14_Witness ==
    /\ pc = "done"
    /\ Len(files) = 1
    /\ Len(files[1].hunks) = 2
    /\ RangeMatch(files[1].hunks[1].header) = <<<<"3">>, <<"5">>>>
    /\ files[1].hunks[1].lines = <<>>
    /\ RangeMatch(files[1].hunks[2].header) = <<>>

(***************************************************************************)
(* C15                                                                     *)
(***************************************************************************)
\* The positions of the lines of the block of line k that start with '@@'.
HunkHeaderPositions(ls, k) ==
    SelectSeq([j \in 1..Len(ls) |-> j],
              LAMBDA j : j > k /\ j <= BlockEnd(ls, k) /\ StartsWith(ls[j], AtAt))

\* The DiffLine d stands for the input line l: l is d.content behind the
\* character of d's type.
StandsFor(d, l) ==
    CASE d.type = "add" -> l = <<"+">> \o d.content
      [] d.type = "remove" -> l = <<"-">> \o d.content
      [] d.type = "no-newline" -> l = d.content
      [] d.type = "context" ->
            \/ l = <<" ">> \o d.content
            \/ l = d.content /\ ~StartsWith(l, <<" ">>)

\* C15: the DiffFiles are in the order of their 'diff --git' lines, the
\* hunks of a DiffFile in the order of their '@@' lines, the DiffLines of a
\* hunk in the order of the input lines; every DiffFile.header and
\* DiffHunk.header is its input line, unchanged.
C15_OrderPreserved ==
    pc = "done" =>
        LET ls == Split(raw)
            ks == ResolvablePositions(ls)
        IN  /\ Len(files) = Len(ks)
            /\ \A n \in 1..Len(ks) :
                 LET hp == HunkHeaderPositions(ls, ks[n])
                     hs == files[n].hunks
                     end(m) == IF m = Len(hp) THEN BlockEnd(ls, ks[n])
                               ELSE hp[m + 1] - 1
                 IN  /\ files[n].header = ls[ks[n]]
                     /\ Len(hs) = Len(hp)
                     /\ \A m \in 1..Len(hp) :
                          /\ hs[m].header = ls[hp[m]]
                          /\ Len(hs[m].lines) = end(m) - hp[m]
                          /\ \A j \in 1..Len(hs[m].lines) :
                                StandsFor(hs[m].lines[j], ls[hp[m] + j])

\* Two DiffFiles, the first with two hunks that differ, the first of them
\* with two lines that differ.
C15_Witness ==
    /\ pc = "done"
    /\ Len(files) = 2
    /\ files[1].header # files[2].header
    /\ Len(files[1].hunks) = 2
    /\ files[1].hunks[1].header # files[1].hunks[2].header
    /\ Len(files[1].hunks[1].lines) >= 2
    /\ files[1].hunks[1].lines[1].content # files[1].hunks[1].lines[2].content

(***************************************************************************)
(* C16                                                                     *)
(***************************************************************************)
\* The text went through DiffView: given to it directly, or by ToolCall
\* because it looks like a diff.
ThroughDiffView ==
    \/ via = "DiffView"
    \/ via = "ToolCall" /\ Len(raw) > 0 /\ LooksLikeDiff(raw)

\* C16: DiffView shows the raw text exactly when parsing yields nothing:
\* the text verbatim when parseDiff returned the empty collection, and
\* otherwise one file block per DiffFile and no raw text; so it is for the
\* tool results ToolCall hands to DiffView because they look like a diff.
C16_RawTextFallback ==
    (pc = "shown" /\ ThroughDiffView) =>
        /\ files = <<>> => shown = Pre(raw)
        /\ files # <<>> =>
              /\ shown.kind = "files"
              /\ shown.text = <<>>
              /\ Len(shown.blocks) = Len(files)
              /\ \A n \in 1..Len(files) : shown.blocks[n] = files[n]

\* A tool result that looks like a diff (a hunk without a file header) and
\* yields no DiffFile: shown as raw text by DiffView.
C16_Witness ==
    /\ pc = "shown"
    /\ via = "ToolCall"
    /\ LooksLikeDiff(raw)
    /\ \E k \in 1..Len(lines) : StartsWith(lines[k], AtAt)
    /\ files = <<>>
    /\ shown = Pre(raw)

(***************************************************************************)
(* C11                                                                     *)
(***************************************************************************)
\* C11: parseDiff is a pure function.  Whatever calls came before and in
\* whatever order, a call returns what an earlier call on the same input
\* returned, and what a call on that input returns when it is the only one:
\* it neither reads nor changes what another call left.
C11_PureFunction ==
    pc = "done" =>
        /\ \A n \in 1..Len(returned) :
              returned[n].raw = raw => returned[n].files = files
        /\ files = ParseDiff(raw)

\* The third call, on the input of the first, after a call on another input
\* that returned something else.
C11_Witness ==
    /\ pc = "done"
    /\ Len(returned) = 2
    /\ returned[1].raw = raw
    /\ returned[2].raw # raw
    /\ returned[2].files # <<>>
    /\ files # <<>>
    /\ files # returned[2].files

(***************************************************************************)
(* C17: a text_editor command (view, create, str_replace or insert) whose  *)
(* path resolves outside the notes directory completes with a result that  *)
(* contains 'Error', does not throw, and reads or writes no file.          *)
(***************************************************************************)
\* String.prototype.includes
Includes(s, p) == \E k \in 1..(Len(s) + 1) : OccursAt(s, p, k)

\* The path is the directory dir or lies below it.
Inside(dir, p) == p = dir \/ StartsWith(p, dir \o <<"/">>)

PathCommands ==
    {<<"v", "i", "e", "w">>, <<"c", "r", "e", "a", "t", "e">>,
     <<"s", "t", "r", "_", "r", "e", "p", "l", "a", "c", "e">>,
     <<"i", "n", "s", "e", "r", "t">>}

\* The last call was one of the four commands on a path outside the notes
\* directory.
OutsideCall ==
    /\ call.tool = "text_editor"
    /\ call.command \in PathCommands
    /\ ~Inside(NotesDir, Resolve(NotesDir, call.path))

\* C17: after a call with a path outside the notes directory the result is
\* a string containing 'Error', nothing was thrown, nothing read or written.
C17_OutsidePathRefused ==
    OutsideCall =>
        /\ ~reply.threw
        /\ Includes(reply.text, <<"E", "r", "r", "o", "r">>)
        /\ io.reads = {}
        /\ io.writes = {}

(***************************************************************************)
(* C18: str_replace modifies the file only when old_str occurs exactly     *)
(* once in it.  With no occurrence or more than one the result is an error *)
(* (naming the count when more than one) and the content stays; with one   *)
(* occurrence the new content is the old content with that occurrence      *)
(* replaced by new_str and everything else unchanged.                      *)
(***************************************************************************)
\* The last call was str_replace, with a non-empty old_str, on a file of the
\* notes directory.
StrReplaceCall ==
    /\ call.tool = "text_editor"
    /\ call.command = <<"s", "t", "r", "_", "r", "e", "p", "l", "a", "c", "e">>
    /\ call.old_str # <<>>
    /\ Inside(NotesDir, Resolve(NotesDir, call.path))
    /\ Resolve(NotesDir, call.path) \in DOMAIN diskBefore.files

\* The positions where p occurs in s.
PositionsOf(s, p) == {k \in 1..Len(s) : OccursAt(s, p, k)}

\* s with the Len(p) characters from position k on replaced by t.
ReplacedAt(s, k, p, t) ==
    SubSeq(s, 1, k - 1) \o t \o SubSeq(s, k + Len(p), Len(s))

\* C18: after str_replace on a file where old_str occurs once, the file is
\* its old content with new_str in the place of the occurrence; where it
\* occurs never or more than once, the result is an error, naming the count
\* when more than one, and no content changed.
C18_ReplacesOnlyUnique ==
    StrReplaceCall =>
        LET p == Resolve(NotesDir, call.path)
            old == diskBefore.files[p]
            at == PositionsOf(old, call.old_str)
        IN  IF Cardinality(at) = 1
            THEN disk = [diskBefore EXCEPT !.files[p] =
                            ReplacedAt(old, CHOOSE k \in at : TRUE,
                                       call.old_str, call.new_str)]
            ELSE /\ ~reply.threw
                 /\ Includes(reply.text, <<"E", "r", "r", "o", "r">>)
                 /\ Cardinality(at) > 1 =>
                        Includes(reply.text, NumToStr(Cardinality(at)))
                 /\ disk = diskBefore

(***************************************************************************)
(* C19: insert with 0 <= insert_line <= the number of lines of the file    *)
(* makes new_str the line at position insert_line + 1 and keeps every      *)
(* original line, in the original order, before or after it; with          *)
(* insert_line outside that range, or for a file that does not exist, the  *)
(* result is an error and the file is unchanged.  The lines of a file are  *)
(* the pieces between its newlines, as the range in the error message      *)
(* counts them.                                                            *)
(***************************************************************************)
\* The last call was insert on a path of the notes directory that is a file
\* or does not exist.
InsertCall ==
    /\ call.tool = "text_editor"
    /\ call.command = <<"i", "n", "s", "e", "r", "t">>
    /\ Inside(NotesDir, Resolve(NotesDir, call.path))
    /\ Resolve(NotesDir, call.path) \notin diskBefore.dirs

\* The file of the last call existed and insert_line is within its lines.
InsertInRange ==
    LET p == Resolve(NotesDir, call.path)
    IN  /\ p \in DOMAIN diskBefore.files
        /\ 0 <= call.insert_line
        /\ call.insert_line <= Len(Split(diskBefore.files[p]))

\* C19: after an insert in range the lines of the file are the first
\* insert_line original lines, then new_str, then the other original lines,
\* and no other file changed; after any other insert the result is an
\* error and nothing changed.
C19_InsertAtLine ==
    InsertCall =>
        LET p == Resolve(NotesDir, call.path)
            k == call.insert_line
        IN  IF InsertInRange
            THEN LET old == Split(diskBefore.files[p])
                     new == Split(disk.files[p])
                     m == Len(Split(call.new_str))
                 IN  /\ Len(new) = Len(old) + m
                     /\ SubSeq(new, 1, k) = SubSeq(old, 1, k)
                     /\ SubSeq(new, k + 1, k + m) = Split(call.new_str)
                     /\ SubSeq(new, k + m + 1, Len(new))
                            = SubSeq(old, k + 1, Len(old))
                     /\ disk = [diskBefore EXCEPT !.files[p] = disk.files[p]]
                     /\ ~reply.threw
            ELSE /\ ~reply.threw
                 /\ Includes(reply.text, <<"E", "r", "r", "o", "r">>)
                 /\ disk = diskBefore

\* An insert after the first of the three lines of a file has happened.
C19_Witness ==
    /\ InsertCall
    /\ InsertInRange
    /\ call.insert_line = 1
    /\ call.new_str = <<"X">>
    /\ Len(Split(diskBefore.files[Resolve(NotesDir, call.path)])) = 3
    /\ disk.files[Resolve(NotesDir, call.path)]
           = <<"a", NL, "X", NL, "b", "b", NL>>

(***************************************************************************)
(* C20: the result of the bash tool is truncated at 10000 characters.  An  *)
(* output of at most 10000 characters is returned unchanged; a longer      *)
(* output of length L is returned as its first 10000 characters followed   *)
(* by a marker containing 'truncated' and the omitted count L - 10000.     *)
(* This holds for the output of a command that succeeded and for the error *)
(* output of one that failed.                                              *)
(***************************************************************************)
\* The output of the command of the last call: stdout of a command that
\* succeeded; of one that failed, what it wrote to stdout and to stderr,
\* one after the other on lines of their own.
CommandOutput ==
    IF call.ok THEN call.stdout
    ELSE IF call.stdout # <<>> /\ call.stderr # <<>>
    THEN call.stdout \o <<NL>> \o call.stderr
    ELSE call.stdout \o call.stderr

\* The result is the text out cut at 10000 characters: out itself when it
\* is no longer, otherwise its first 10000 characters and after them a text
\* containing 'truncated' and the number of characters left out.
CutAtLimit(out) ==
    IF Len(out) <= MAX_OUTPUT_CHARS
    THEN reply.text = out
    ELSE LET marker == SubSeq(reply.text, MAX_OUTPUT_CHARS + 1,
                              Len(reply.text))
         IN  /\ Len(reply.text) > MAX_OUTPUT_CHARS
             /\ SubSeq(reply.text, 1, MAX_OUTPUT_CHARS)
                    = SubSeq(out, 1, MAX_OUTPUT_CHARS)
             /\ Includes(marker, <<"t", "r", "u", "n", "c", "a", "t", "e",
                    "d">>)
             /\ Includes(marker, NumToStr(Len(out) - MAX_OUTPUT_CHARS))

\* C20 as stated: after a call of the bash tool the result is the output of
\* the command cut at 10000 characters, whatever the output.
C20_TruncatedAtLimit ==
    call.tool = "bash" => ~reply.threw /\ CutAtLimit(CommandOutput)

\* What the tool returns in the place of an empty output.
EmptyOutputText ==
    IF call.ok THEN <<"(", "n", "o", " ", "o", "u", "t", "p", "u", "t", ")">>
    ELSE IF call.message # <<>> THEN call.message
    ELSE <<"C", "o", "m", "m", "a", "n", "d", " ", "f", "a", "i", "l", "e",
        "d">>

\* C20 amended: after a call of the bash tool the result is the output of
\* the command cut at 10000 characters when the output is not empty; for
\* an empty output it is '(no output)' after a command that succeeded, and
\* the message of the error, or 'Command failed', after one that failed.
C20_TruncatedUnlessEmpty ==
    call.tool = "bash" =>
        /\ ~reply.threw
        /\ CutAtLimit(IF CommandOutput # <<>> THEN CommandOutput
                      ELSE EmptyOutputText)

\* A command has failed with 10001 characters of error output, and the
\* result is longer than 10000 characters.
C20_Witness ==
    /\ call.tool = "bash"
    /\ ~call.ok
    /\ Len(CommandOutput) = MAX_OUTPUT_CHARS + 1
    /\ call.stdout # <<>>
    /\ call.stderr # <<>>
    /\ Len(reply.text) > MAX_OUTPUT_CHARS + 1

(***************************************************************************)
(* C22                                                                     *)
(***************************************************************************)
\* Line j of the input is in the head of a file block: a 'diff --git' line
\* comes before it, and from the line after that one to line j no line
\* starts with 'diff --git' or '@@'.
HeaderPart(ls, j) ==
    \E k \in 1..(j - 1) :
        /\ StartsWith(ls[k], DiffGit)
        /\ \A m \in (k + 1)..j :
              ~StartsWith(ls[m], DiffGit) /\ ~StartsWith(ls[m], AtAt)

\* C22: the lines between a 'diff --git' line and the first '@@' line of
\* its block (the mode, index, rename and similarity lines, a 'Binary '
\* line, the '--- ' and '+++ ' lines) are passed over: the step that takes
\* the scan past such a line appends no DiffLine, opens no hunk and adds no
\* hunk to the file.
C22_HeaderPartSkipped ==
    [][\A j \in (i + 1)..i' :
          HeaderPart(lines, j) =>
              /\ hunkLines' = hunkLines
              /\ hunkHeader' = hunkHeader
              /\ pc' # "body"
              /\ Len(hunks') <= Len(hunks)]_vars

\* A block with an index line, a '--- ' and a '+++ ' line before its hunk
\* has been parsed, and the hunk has its lines.
C22_Witness ==
    /\ pc = "done"
    /\ \E j \in 1..Len(lines) :
          /\ HeaderPart(lines, j)
          /\ ~StartsWith(lines[j], MinusPath)
          /\ ~StartsWith(lines[j], PlusPath)
          /\ ~StartsWith(lines[j], BinaryMark)
    /\ \E j \in 1..Len(lines) :
          HeaderPart(lines, j) /\ StartsWith(lines[j], MinusPath)
    /\ \E j \in 1..Len(lines) :
          HeaderPart(lines, j) /\ StartsWith(lines[j], PlusPath)
    /\ Len(files) = 1
    /\ Len(files[1].hunks) = 1
    /\ Len(files[1].hunks[1].lines) >= 2

(***************************************************************************)
(* C23                                                                     *)
(***************************************************************************)
\* The DiffLine d is what the first character of the line l asks for.
ClassifiedByFirstChar(d, l) ==
    IF l # <<>> /\ l[1] = "+"
    THEN /\ d.type = "add"
         /\ d.content = Tail(l)
         /\ d.oldLineNo = Null
         /\ d.newLineNo # Null
    ELSE IF l # <<>> /\ l[1] = "-"
    THEN /\ d.type = "remove"
         /\ d.content = Tail(l)
         /\ d.oldLineNo # Null
         /\ d.newLineNo = Null
    ELSE IF StartsWith(l, NoNewlineMark)
    THEN d.type = "no-newline"
    ELSE /\ d.type = "context"
         /\ d.oldLineNo # Null
         /\ d.newLineNo # Null
         /\ d.content = IF l # <<>> /\ l[1] = " " THEN Tail(l) ELSE l

\* C23: in a hunk body the DiffLine pushed last is the one the first
\* character of the line just read asks for: '+' gives 'add' with the rest
\* of the line and no old number, '-' gives 'remove' with the rest of the
\* line and no new number, '\ No newline' gives 'no-newline', and every
\* other line, the empty one too, gives 'context' with both numbers and
\* the line less one leading space.
C23_ClassifiedByFirstChar ==
    (pc = "body" /\ hunkLines # <<>>) =>
        ClassifiedByFirstChar(hunkLines[Len(hunkLines)], lines[i])

\* A hunk body with an added, a context and an empty line has been read;
\* the context line had two leading characters, the first a space.
C23_Witness ==
    /\ pc = "body"
    /\ Len(hunkLines) >= 3
    /\ lines[i] = <<>>
    /\ hunkLines[Len(hunkLines)].type = "context"
    /\ \E k \in 1..Len(hunkLines) : hunkLines[k].type = "add"
    /\ \E k \in 1..Len(hunkLines) :
          /\ hunkLines[k].type = "context"
          /\ hunkLines[k].content # <<>>
          /\ lines[i - Len(hunkLines) + k] = <<" ">> \o hunkLines[k].content

(***************************************************************************)
(* C24                                                                     *)
(***************************************************************************)
\* The positions of the scan, from the innermost loop outwards, and how
\* far each is from the return.
ScanRank(p) ==
    CASE p = "meta" -> 4
      [] p = "body" -> 3
      [] p = "hunks" -> 2
      [] p = "outer" -> 1
      [] OTHER -> 0

\* What is left of the scan: the lines not yet passed, and the position.
ScanLeft(p, idx, ls) == 5 * (Len(ls) - idx) + ScanRank(p)

\* C24: the index stays between 0 and the number of lines and never
\* decreases; every iteration of the outer loop, the metadata loop, the
\* hunk loop and the body loop raises it by at least one; every step of the
\* scan brings it nearer to its end, so that it ends; and it ends with the
\* index equal to the number of lines.
C24_ScanTerminates ==
    /\ [](i >= 0 /\ i <= Len(lines))
    /\ [](pc = "done" => i = Len(lines))
    /\ [][/\ i' >= i
          /\ (pc = "outer" /\ pc' \in {"outer", "meta"}) => i' >= i + 1
          /\ (pc = "meta" /\ pc' = "meta") => i' >= i + 1
          /\ (pc = "hunks" /\ pc' \in {"hunks", "body"}) => i' >= i + 1
          /\ (pc = "body" /\ pc' = "body") => i' >= i + 1
          /\ pc \in {"outer", "meta", "hunks", "body"} =>
                ScanLeft(pc', i', lines') < ScanLeft(pc, i, lines)]_vars

\* A scan through all four loops has ended: two file blocks, a metadata
\* line, two hunks in a block, a hunk body.
C24_Witness ==
    /\ pc = "done"
    /\ i = Len(lines)
    /\ Cardinality(HeaderPositions(lines)) = 2
    /\ \E j \in 1..Len(lines) :
          HeaderPart(lines, j) /\ ~StartsWith(lines[j], MinusPath)
                               /\ ~StartsWith(lines[j], PlusPath)
    /\ \E n \in 1..Len(files) :
          /\ Len(files[n].hunks) = 2
          /\ Len(files[n].hunks[1].lines) >= 2

(***************************************************************************)
(* C25                                                                     *)
(***************************************************************************)
\* The position of the '@@' line of the hunk being read: the last line
\* that starts with '@@' among the first idx lines.
CurrentHunkHeader(ls, idx) ==
    CHOOSE h \in 1..idx :
        /\ StartsWith(ls[h], AtAt)
        /\ \A m \in (h + 1)..idx : ~StartsWith(ls[m], AtAt)

\* The lines of the bodies of the hunks of the resolvable blocks: the
\* lines of such a block after its first '@@' line that do not start with
\* '@@'.
BodyPositions(ls) ==
    {j \in 1..Len(ls) :
        /\ ~StartsWith(ls[j], AtAt)
        /\ \E k \in HeaderPositions(ls) :
              /\ Resolvable(ls, k)
              /\ k < j
              /\ j <= BlockEnd(ls, k)
              /\ \E h \in (k + 1)..(j - 1) : StartsWith(ls[h], AtAt)}

\* The DiffLines of a result, as <<<<file, hunk>>, index of the line>>.
DiffLineIds(fs) ==
    {x \in HunkIds(fs) \X (1..20) : x[2] <= Len(HunkOf(fs, x[1]).lines)}

\* C25: while a hunk body is read, the DiffLines of the hunk are the lines
\* read since its '@@' line, one each and in their places; the hunk pushed
\* is that list; and the result has as many DiffLines as the hunk bodies of
\* its file blocks have lines: no line is dropped, doubled or given to
\* another hunk or file.
C25_OneDiffLinePerBodyLine ==
    /\ [](pc = "body" =>
             LET h == CurrentHunkHeader(lines, i)
             IN  /\ hunkHeader = lines[h]
                 /\ Len(hunkLines) = i - h
                 /\ \A j \in 1..Len(hunkLines) :
                       StandsFor(hunkLines[j], lines[h + j]))
    /\ [][(pc = "body" /\ pc' # "body") =>
             hunks' = Append(hunks, [header |-> hunkHeader,
                                     lines |-> hunkLines])]_vars
    /\ [](pc = "done" =>
             Cardinality(DiffLineIds(files)) = Cardinality(BodyPositions(lines)))

\* Two hunks of one block have been read, the first with two lines, and a
\* second block after them.
C25_Witness ==
    /\ pc = "done"
    /\ Len(files) = 2
    /\ Len(files[1].hunks) = 2
    /\ Len(files[1].hunks[1].lines) >= 2
    /\ Len(files[1].hunks[2].lines) >= 2
    /\ Cardinality(DiffLineIds(files)) >= 5

(***************************************************************************)
(* C30                                                                     *)
(***************************************************************************)
\* C30: when parseDiff returns files for the text DiffPanel shows, the
\* file count of the header of the panel is the number of these files.
C30_FileCountIsFilesShown ==
    (pc = "done" /\ via = "DiffView" /\ Len(files) > 0) =>
        FileCount(raw) = Len(files)

(***************************************************************************)
(* C28                                                                     *)
(***************************************************************************)
\* C28: whenever safePath returns a path for the path argument of a call,
\* for the notes directory of the tools or for its parent directory, the
\* path returned is that directory or lies below it.
C28_SafePathOnlyInside ==
    call.tool = "text_editor" =>
        \A dir \in {NotesDir, <<"/", "r">>} :
            LET safe == SafePath(dir, call.path)
            IN  ~safe.threw => Inside(dir, safe.text)

(***************************************************************************)
(* C26                                                                     *)
(***************************************************************************)
\* The check a chat request fails first, in the order NOTES_DIR,
\* ANTHROPIC_API_KEY, JSON body, messages array: the status and a word of
\* the error of its response; status 0 when it passes all four.
FirstFailedCheck(e, body) ==
    IF ~e.notesDir THEN [status |-> 500, word |-> <<"N", "O", "T", "E", "S",
        "_", "D", "I", "R">>]
    ELSE IF ~e.apiKey THEN [status |-> 500, word |-> <<"A", "N", "T", "H",
        "R", "O", "P", "I", "C", "_", "A", "P", "I", "_", "K", "E", "Y">>]
    ELSE IF ~body.json THEN [status |-> 400, word |-> <<"J", "S", "O", "N">>]
    ELSE IF body.messages.kind # "array"
    THEN [status |-> 400, word |-> <<"m", "e", "s", "s", "a", "g", "e", "s">>]
    ELSE [status |-> 0, word |-> <<>>]

Transcript(d) ==
    IF ConvPath(NotesDir) \in DOMAIN d.files
    THEN d.files[ConvPath(NotesDir)] ELSE <<>>

\* The conversation file has a character that is not white space.
HasTranscript(d) ==
    \E k \in 1..Len(Transcript(d)) : Transcript(d)[k] \notin WhiteSpace

\* The files below .nucleus/conversations/.
Archives(d) ==
    {p \in DOMAIN d.files : StartsWith(p, ArchiveDir(NotesDir) \o <<"/">>)}

LastFetch == fetches[Len(fetches)]

\* C21: the mount and every change of isStreaming make exactly one call of
\* fetchDiff, at once; while isStreaming is true a call is never more than
\* two seconds old, and a call made by the interval comes two seconds
\* after the call before it, both made while isStreaming was true; a
\* step that changes neither the mount nor isStreaming makes a call only
\* while isStreaming is true; and while isStreaming is false no interval
\* is set.
C21_PollsOnlyWhileStreaming ==
    /\ [][(mounted' # mounted \/ isStreaming' # isStreaming) =>
             /\ Len(fetches') = Len(fetches) + 1
             /\ SubSeq(fetches', 1, Len(fetches)) = fetches
             /\ fetches'[Len(fetches')].at = now
             /\ now' = now]_vars
    /\ []((mounted /\ isStreaming) =>
             /\ fetches # <<>>
             /\ now - LastFetch.at <= PollSeconds
             /\ timer.set)
    /\ [](\A k \in 1..Len(fetches) :
             fetches[k].cause = "interval" =>
                 /\ k > 1
                 /\ fetches[k].streaming
                 /\ fetches[k - 1].streaming
                 /\ fetches[k].at = fetches[k - 1].at + PollSeconds)
    /\ [][(Len(fetches') > Len(fetches) /\ mounted' = mounted
              /\ isStreaming' = isStreaming) =>
             /\ isStreaming
             /\ Len(fetches') = Len(fetches) + 1
             /\ now = fetches[Len(fetches)].at + PollSeconds]_vars
    /\ []((mounted /\ ~isStreaming) => ~timer.set)

\* The panel fetched on a change to streaming, again two seconds later,
\* again when streaming ended, and then two seconds passed without a call.
C21_Witness ==
    /\ Len(fetches) = 3
    /\ fetches[1].cause = "effect"
    /\ fetches[1].streaming
    /\ fetches[2].cause = "interval"
    /\ fetches[2].at = fetches[1].at + PollSeconds
    /\ fetches[3].cause = "effect"
    /\ ~fetches[3].streaming
    /\ ~isStreaming
    /\ now >= fetches[3].at + PollSeconds

(***************************************************************************)
(* C29                                                                     *)
(***************************************************************************)
\* C29: once every call of fetchDiff has settled, and the call made last
\* got a response that is ok, the panel renders the diff of that response
\* (nothing when it is blank).
C29_ShowsLatestResponse ==
    (/\ fetches # <<>>
     /\ \A k \in 1..Len(fetches) : fetches[k].settled
     /\ LastFetch.resOk) =>
        Rendered = IF Trim(LastFetch.jsonDiff) = <<>> THEN <<>>
                   ELSE LastFetch.jsonDiff

====
